---- MODULE Spec2Model ----
(***************************************************************************)
(* A model of the gridfinity label generator: the icon registry and the    *)
(* shape generators of shapes.py, and the label loop of generator.py.      *)
(*                                                                         *)
(* Strings are TLA+ strings.  Lengths and coordinates are fixed-point      *)
(* numbers in thousandths of a drawing unit (80 is 80000); sines and       *)
(* cosines are in ten-thousandths.  An SVG fragment is the sequence of its *)
(* tags, each a record of the tag name and its attributes; the empty       *)
(* string is the empty sequence.                                           *)
(***************************************************************************)
EXTENDS Integers, Sequences, FiniteSets, TLC

VARIABLES
    top_generators,   \* IconRegistry.top_generators: key -> generator function
    side_generators,  \* IconRegistry.side_generators: key -> generator function
    raised,           \* the exception the last operation raised, or NoException
    last_call,        \* the last operation and its arguments
    load_pc,          \* the next decorator of shapes.py to apply while importing
    gl_pc,            \* generate_labels: "idle", "running", "returned", "raised"
    rows,             \* generate_labels: the parsed rows, updated in place
    row_idx,          \* generate_labels: the number of rows the loop has finished
    qr_type,          \* generate_labels: its qr_type argument
    output_format,    \* generate_labels: its output_format argument
    errors,           \* the messages passed to error(), in order
    queries,          \* the registry lookups made, in order
    files,            \* the output files written, in order
    responses,        \* what the shortener and segno answered for each row so far
    geom_call,        \* the geometry helper called and its arguments
    geom_ret,         \* what the geometry helper returned
    parts_file,       \* generate_labels: the spreadsheet file it was given
    LOG_LEVEL,        \* generator.LOG_LEVEL
    io_call,          \* the helper of generator.py called and its arguments
    io_ret            \* what the helper returned, raised, requested and printed

vars == <<top_generators, side_generators, raised, last_call, load_pc, gl_pc, rows,
          row_idx, qr_type, output_format, errors, queries, files, responses, geom_call,
          geom_ret, parts_file, LOG_LEVEL, io_call, io_ret>>

registry_vars == <<top_generators, side_generators>>
label_vars ==
    <<gl_pc, rows, row_idx, qr_type, output_format, errors, queries, files, responses,
      parts_file>>
geom_vars == <<geom_call, geom_ret>>
util_vars == <<LOG_LEVEL, io_call, io_ret>>

NoException == "none"
None == "None"
EmptyDict == <<>>

\* str.lower() on the strings the model uses; every other string of the model is
\* already lower case and maps to itself.
LowerTable ==
    [s \in {"HEX", "Hex", "Washer", "WASHER_STD", "Washer_Flat", "NUT", "Nut"} |->
        CASE s = "HEX" -> "hex"
          [] s = "Hex" -> "hex"
          [] s = "Washer" -> "washer"
          [] s = "WASHER_STD" -> "washer_std"
          [] s = "Washer_Flat" -> "washer_flat"
          [] s = "NUT" -> "nut"
          [] s = "Nut" -> "nut"]

lower_identity(s) == s

lower(s) == IF s \in DOMAIN LowerTable THEN LowerTable[s] ELSE s

\* The body applied to the value, the value computed once.
Bind(value, Body(_)) == CHOOSE out \in { Body(v) : v \in {value} } : TRUE

\* dict.get(key): the value, or None for a missing key.
dict_get(d, key) == IF key \in DOMAIN d THEN d[key] ELSE None

\* d[key] = value
dict_set(d, key, value) == (key :> value) @@ d

(***************************************************************************)
(* shapes.py: icon_generator and its decorator                             *)
(***************************************************************************)
AlreadyRegistered == "ValueError: Icon generator already registered"
UnknownRegistry == "ValueError: Unknown icon registry"

\* The loop of decorator(func): names are bound one by one, in order; the first
\* name already in the registry raises and leaves the earlier ones bound.
RECURSIVE decorator_loop(_, _, _)
decorator_loop(registry, names, func) ==
    IF names = <<>>
    THEN [registry |-> registry, raised |-> NoException]
    ELSE LET name_lower == lower(Head(names))
         IN  IF name_lower \in DOMAIN registry
             THEN [registry |-> registry, raised |-> AlreadyRegistered]
             ELSE decorator_loop(dict_set(registry, name_lower, func), Tail(names), func)

\* A decorator without the duplicate check: a later registration rebinds the key.
RECURSIVE decorator_overwrite(_, _, _)
decorator_overwrite(registry, names, func) ==
    IF names = <<>>
    THEN [registry |-> registry, raised |-> NoException]
    ELSE decorator_overwrite(dict_set(registry, lower(Head(names)), func), Tail(names), func)

\* A decorator that binds the first of its names only.
decorator_first_name(registry, names, func) ==
    decorator_loop(registry, IF names = <<>> THEN names ELSE <<Head(names)>>, func)

\* A decorator that binds all of its names or none of them.
decorator_atomic(registry, names, func) ==
    IF decorator_loop(registry, names, func).raised = NoException
    THEN decorator_loop(registry, names, func)
    ELSE [registry |-> registry, raised |-> AlreadyRegistered]

decorator(registry, names, func) == decorator_loop(registry, names, func)

\* An icon_generator whose two views share their keys: a registration in one view
\* binds the names in the other view as well.
icon_generator_shared(top, side, which, names, func) ==
    IF which \notin {"top", "side"}
    THEN [top |-> top, side |-> side, raised |-> UnknownRegistry]
    ELSE [top |-> decorator(top, names, func).registry,
          side |-> decorator(side, names, func).registry,
          raised |-> IF decorator(top, names, func).raised # NoException
                     THEN decorator(top, names, func).raised
                     ELSE decorator(side, names, func).raised]

\* @icon_generator(which, names) applied to func: the registries afterwards and
\* the exception raised, if any.
icon_generator(top, side, which, names, func) ==
    CASE which = "top" ->
            LET r == decorator(top, names, func)
            IN  [top |-> r.registry, side |-> side, raised |-> r.raised]
      [] which = "side" ->
            LET r == decorator(side, names, func)
            IN  [top |-> top, side |-> r.registry, raised |-> r.raised]
      [] OTHER -> [top |-> top, side |-> side, raised |-> UnknownRegistry]

(***************************************************************************)
(* Fixed-point arithmetic                                                  *)
(***************************************************************************)
\* A whole number of drawing units, in thousandths.
Units(n) == n * 1000

\* x * (num / den), a float product such as diameter * 0.4.
Frac(x, num, den) == (x * num) \div den

\* a / b rounded to the nearest integer (b > 0).
RoundDiv(a, b) == (2 * a + b) \div (2 * b)

\* f"{x:.2f}": a value in thousandths formatted to two decimals, in hundredths.
format_2f(x) == RoundDiv(x, 10)

Max(a, b) == IF a >= b THEN a ELSE b

\* range(start, stop, step) for step > 0.
Range(start, stop, step) ==
    IF stop <= start THEN <<>>
    ELSE [i \in 1..((stop - start + step - 1) \div step) |-> start + (i - 1) * step]

\* cos of 0, 3, 6, ..., 90 degrees, in ten-thousandths.
CosTable ==
    <<10000, 9986, 9945, 9877, 9781, 9659, 9511, 9336, 9135, 8910, 8660,
      8387, 8090, 7771, 7431, 7071, 6691, 6293, 5878, 5446, 5000,
      4540, 4067, 3584, 3090, 2588, 2079, 1564, 1045, 523, 0>>

\* math.cos(math.radians(deg)) for deg a multiple of 3, in ten-thousandths.
cos_deg(deg) ==
    LET m == deg % 360
    IN  IF m <= 90 THEN CosTable[m \div 3 + 1]
        ELSE IF m <= 180 THEN -CosTable[(180 - m) \div 3 + 1]
        ELSE IF m <= 270 THEN -CosTable[(m - 180) \div 3 + 1]
        ELSE CosTable[(360 - m) \div 3 + 1]

\* math.sin(math.radians(deg)), likewise.
sin_deg(deg) == cos_deg(deg - 90)

\* math.tan(math.radians(30)), in ten-thousandths, as a ratio to 10000.
tan_30(x) == Frac(x, 5774, 10000)

\* math.sqrt(3) / 2, likewise.
sqrt3_half(x) == Frac(x, 8660, 10000)

(***************************************************************************)
(* shapes.py: generic shape components                                     *)
(***************************************************************************)
\* The circumradius polygon_points computes from the flat-to-flat distance.
circumradius(n, flat_to_flat) == RoundDiv(flat_to_flat * 10000, 2 * cos_deg(180 \div n))

\* The radius taken to be half the flat-to-flat distance (the apothem).
circumradius_apothem(n, flat_to_flat) == flat_to_flat \div 2

polygon_R(n, flat_to_flat) == circumradius(n, flat_to_flat)

\* polygon_points: the n formatted "x,y" pairs, in hundredths; 360.0 / n is a
\* whole number of degrees for the side counts of the model.
polygon_points(n, flat_to_flat, cx, cy, rotation_deg) ==
    LET R == polygon_R(n, flat_to_flat)
    IN  [k \in 1..n |->
            LET angle_deg == rotation_deg + (k - 1) * (360 \div n)
                x == cx + RoundDiv(R * cos_deg(angle_deg), 10000)
                y == cy + RoundDiv(R * sin_deg(angle_deg), 10000)
            IN  <<format_2f(x), format_2f(y)>>]

\* The radii the other way round: inner for even i, outer for odd i.
star_radius_swapped(i, outer_radius, inner_radius) ==
    IF i % 2 = 0 THEN inner_radius ELSE outer_radius

\* The radius of vertex i of a star: outer for even i, inner for odd i.
star_radius(i, outer_radius, inner_radius) ==
    IF i % 2 = 0 THEN outer_radius ELSE inner_radius

\* star: the path 'M x0 y0 L x1 y1 x2 y2 ... Z' as its commands; a vertex after
\* the second carries no command letter.  Coordinates are in hundredths.
star(lobes, outer_radius, inner_radius) ==
    [k \in 1..(lobes * 2) |->
        LET i == k - 1
            r == star_radius(i, outer_radius, inner_radius)
            angle_deg == i * (360 \div (lobes * 2)) - 90
            x == Units(50) + RoundDiv(r * cos_deg(angle_deg), 10000)
            y == Units(50) + RoundDiv(r * sin_deg(angle_deg), 10000)
        IN  [cmd |-> IF i = 0 THEN "M" ELSE IF i = 1 THEN "L" ELSE "",
             x |-> format_2f(x), y |-> format_2f(y)]]
    \o <<[cmd |-> "Z"]>>

annulus(outer_radius, inner_radius, color) ==
    << [tag |-> "circle", cx |-> Units(50), cy |-> Units(50), r |-> outer_radius, fill |-> color],
       [tag |-> "circle", cx |-> Units(50), cy |-> Units(50), r |-> inner_radius, fill |-> "#FFFFFF"] >>

\* A cap centred in the field instead of resting on the line y = 20.
cap_side_centered(head_width, head_height) ==
    << [tag |-> "rect", x |-> (Units(100) - head_width) \div 2,
        y |-> (Units(100) - head_height) \div 2,
        width |-> head_width, height |-> head_height,
        rx |-> head_height \div 4, ry |-> head_height \div 4, fill |-> "#000000"] >>

cap_side(head_width, head_height) ==
    << [tag |-> "rect", x |-> (Units(100) - head_width) \div 2,
        y |-> Units(100) - head_height - Units(80),
        width |-> head_width, height |-> head_height,
        rx |-> head_height \div 4, ry |-> head_height \div 4, fill |-> "#000000"] >>

button_side(head_diameter, head_height) ==
    << [tag |-> "ellipse", cx |-> Units(50),
        cy |-> Units(100) - head_height - Units(80) + head_height \div 2,
        rx |-> head_diameter \div 2, ry |-> head_height \div 2, fill |-> "#000000"],
       [tag |-> "rect", x |-> (Units(100) - head_diameter) \div 2,
        y |-> Units(100) - head_height - Units(80) + head_height \div 2,
        width |-> head_diameter, height |-> head_height \div 2, fill |-> "#000000"] >>

countersunk_side(head_diameter, head_height) ==
    << [tag |-> "path",
        d |-> << [cmd |-> "M", x |-> (Units(100) - head_diameter) \div 2,
                  y |-> Units(100) - head_height - Units(80)],
                 [cmd |-> "L", x |-> (Units(100) + head_diameter) \div 2,
                  y |-> Units(100) - head_height - Units(80)],
                 [cmd |-> "L", x |-> Units(60), y |-> Units(100) - Units(80)],
                 [cmd |-> "L", x |-> Units(40), y |-> Units(100) - Units(80)],
                 [cmd |-> "Z"] >>,
        fill |-> "#000000"] >>

\* A shaft whose rectangle is not shortened by the height of its tip.
bolt_shaft_unshortened(shaft_width, shaft_length_arg, pointed) ==
    LET origin_x == (Units(100) - shaft_width) \div 2
        origin_y == Units(100) - shaft_length_arg
        bottom == origin_y + shaft_length_arg
        tip == IF pointed THEN shaft_width ELSE shaft_width \div 4
    IN  << [tag |-> "rect", x |-> origin_x, y |-> origin_y, width |-> shaft_width,
            height |-> shaft_length_arg, fill |-> "#000000"] >>
        \o [k \in 1..6 |->
              [tag |-> "line", x1 |-> origin_x,
               y1 |-> origin_y + (k * shaft_length_arg) \div 7,
               x2 |-> (Units(100) + shaft_width) \div 2,
               y2 |-> origin_y + (k * shaft_length_arg) \div 7 - shaft_width \div 4,
               stroke |-> "#FFFFFF", stroke_width |-> 2]]
        \o << [tag |-> "path",
               d |-> IF pointed
                     THEN << [cmd |-> "M", x |-> origin_x, y |-> bottom],
                             [cmd |-> "L", x |-> Units(50), y |-> bottom + tip],
                             [cmd |-> "L", x |-> origin_x + shaft_width, y |-> bottom],
                             [cmd |-> "Z"] >>
                     ELSE << [cmd |-> "M", x |-> origin_x, y |-> bottom],
                             [cmd |-> "L", x |-> origin_x + shaft_width, y |-> bottom],
                             [cmd |-> "L", x |-> origin_x + shaft_width - tip \div 2,
                              y |-> bottom + tip],
                             [cmd |-> "L", x |-> origin_x + tip \div 2, y |-> bottom + tip],
                             [cmd |-> "Z"] >>,
               fill |-> "#000000"] >>

bolt_shaft(shaft_width, shaft_length_arg, pointed) ==
    LET origin_x == (Units(100) - shaft_width) \div 2
        origin_y == Units(100) - shaft_length_arg
        chamfer_height == shaft_width \div 4
        shaft_length == shaft_length_arg - (IF pointed THEN shaft_width ELSE chamfer_height)
        num_threads == 6
        shaft == << [tag |-> "rect", x |-> origin_x, y |-> origin_y, width |-> shaft_width,
                     height |-> shaft_length, fill |-> "#000000"] >>
        threads == [k \in 1..num_threads |->
                      LET y == origin_y + (k * shaft_length) \div (num_threads + 1)
                      IN  [tag |-> "line", x1 |-> origin_x, y1 |-> y,
                           x2 |-> (Units(100) + shaft_width) \div 2,
                           y2 |-> y - shaft_width \div 4,
                           stroke |-> "#FFFFFF", stroke_width |-> 2]]
        point == << [tag |-> "path",
                     d |-> << [cmd |-> "M", x |-> origin_x, y |-> origin_y + shaft_length],
                              [cmd |-> "L", x |-> Units(50), y |-> Units(100)],
                              [cmd |-> "L", x |-> origin_x + shaft_width,
                               y |-> origin_y + shaft_length],
                              [cmd |-> "Z"] >>,
                     fill |-> "#000000"] >>
        chamfer == << [tag |-> "path",
                       d |-> << [cmd |-> "M", x |-> origin_x, y |-> origin_y + shaft_length],
                                [cmd |-> "L", x |-> origin_x + shaft_width,
                                 y |-> origin_y + shaft_length],
                                [cmd |-> "L", x |-> origin_x + shaft_width - chamfer_height \div 2,
                                 y |-> origin_y + shaft_length + chamfer_height],
                                [cmd |-> "L", x |-> origin_x + chamfer_height \div 2,
                                 y |-> origin_y + shaft_length + chamfer_height],
                                [cmd |-> "Z"] >>,
                       fill |-> "#000000"] >>
    IN  shaft \o threads \o (IF pointed THEN point ELSE chamfer)

nut_hex_top(flat_to_flat, color) ==
    LET points_str == polygon_points(6, flat_to_flat, Units(50), Units(50), 0)
        hole_radius == flat_to_flat \div 4
    IN  << [tag |-> "polygon", points |-> points_str, fill |-> color],
           [tag |-> "circle", cx |-> Units(50), cy |-> Units(50), r |-> hole_radius,
            fill |-> "#FFFFFF"] >>

nut_hex_side(thickness, flat_to_flat, color) ==
    << [tag |-> "rect", x |-> (Units(100) - thickness) \div 2,
        y |-> (Units(100) - flat_to_flat) \div 2,
        width |-> thickness, height |-> flat_to_flat, fill |-> color],
       [tag |-> "line", x1 |-> (Units(100) - thickness) \div 2 - flat_to_flat \div 4,
        y1 |-> (Units(100) - flat_to_flat) \div 2 + Frac(flat_to_flat, 25, 100),
        x2 |-> (Units(100) + thickness) \div 2 + flat_to_flat \div 4,
        y2 |-> (Units(100) - flat_to_flat) \div 2 + Frac(flat_to_flat, 25, 100),
        stroke |-> "#FFFFFF", stroke_width |-> 2],
       [tag |-> "line", x1 |-> (Units(100) - thickness) \div 2 - flat_to_flat \div 4,
        y1 |-> (Units(100) - flat_to_flat) \div 2 + Frac(flat_to_flat, 75, 100),
        x2 |-> (Units(100) + thickness) \div 2 + flat_to_flat \div 4,
        y2 |-> (Units(100) - flat_to_flat) \div 2 + Frac(flat_to_flat, 75, 100),
        stroke |-> "#FFFFFF", stroke_width |-> 2] >>

slot(length, width, angle) ==
    << [tag |-> "rect", x |-> (Units(100) - length) \div 2, y |-> (Units(100) - width) \div 2,
        width |-> length, height |-> width, transform |-> <<"rotate", angle, 50, 50>>,
        fill |-> "#FFFFFF"] >>

\* The elements alone, with no <svg> ... </svg> around them.
svg_unwrapped(viewBox, elements) == elements

\* An <svg> block of another size: width="50" height="50".
svg_half_size(viewBox, elements) ==
    << [tag |-> "svg", width |-> 50, height |-> 50, viewBox |-> viewBox] >>
    \o elements \o << [tag |-> "/svg"] >>

\* The <svg width="100" height="100" viewBox="..."> ... </svg> block every icon
\* generator returns around its elements.
svg(viewBox, elements) ==
    << [tag |-> "svg", width |-> 100, height |-> 100, viewBox |-> viewBox] >>
    \o elements \o << [tag |-> "/svg"] >>

comment == << [tag |-> "!--"] >>

(***************************************************************************)
(* shapes.py: the icon generators                                          *)
(***************************************************************************)
Frame == <<0, 0, 100, 100>>
ShiftedFrame == <<5, 0, 100, 100>>

button_head_side ==
    LET head_width == Units(50)
        head_height == Units(20)
        shaft_width == Units(25)
        shaft_length == Units(80)
    IN  svg(Frame, button_side(head_width, head_height)
                   \o bolt_shaft(shaft_width, shaft_length, FALSE))

cap_head_side ==
    LET head_width == Units(50)
        head_height == Units(30)
        shaft_width == Units(25)
        shaft_length == Units(80)
    IN  svg(Frame, cap_side(head_width, head_height)
                   \o bolt_shaft(shaft_width, shaft_length, FALSE))

hex_head_side ==
    LET head_flat_to_flat == Units(50)
        head_height == Units(30)
        shaft_width == Units(25)
        shaft_length == Units(80)
    IN  svg(Frame, cap_side(head_flat_to_flat, head_height)
                   \o bolt_shaft(shaft_width, shaft_length, FALSE))

flush_head_side ==
    LET head_diameter == Units(50)
        shaft_width == Units(20)
        shaft_length == Units(80)
    IN  svg(Frame, countersunk_side(head_diameter, shaft_width)
                   \o bolt_shaft(shaft_width, shaft_length, FALSE))

wood_screw_side ==
    LET head_diameter == Units(50)
        shaft_width == Units(20)
        shaft_length == Units(80)
    IN  svg(Frame, countersunk_side(head_diameter, shaft_width)
                   \o bolt_shaft(shaft_width, shaft_length, TRUE))

washer_std_side(outer_diameter, inner_diameter) ==
    LET thickness == outer_diameter \div 6
    IN  svg(Frame,
            << [tag |-> "rect", x |-> (Units(100) - thickness) \div 2,
                y |-> (Units(100) - outer_diameter) \div 2,
                width |-> thickness, height |-> outer_diameter, fill |-> "#000000"],
               [tag |-> "rect", x |-> (Units(100) - thickness) \div 2,
                y |-> (Units(100) - inner_diameter) \div 2,
                width |-> thickness, height |-> inner_diameter, fill |-> "#FFFFFF"] >>)

washer_std_top(outer_diameter, inner_diameter) ==
    svg(Frame, annulus(outer_diameter \div 2, inner_diameter \div 2, "#000000"))

washer_fender_side(diameter) == washer_std_side(diameter, diameter \div 3)

washer_fender_top(diameter) == washer_std_top(diameter, diameter \div 3)

washer_split_side(diameter) ==
    LET outer_diameter == diameter
        inner_diameter == diameter \div 2
        thickness == diameter \div 10
    IN  svg(Frame,
            << [tag |-> "path",
                d |-> << [cmd |-> "M", x |-> (Units(100) - thickness) \div 2,
                          y |-> (Units(100) - outer_diameter) \div 2 + Units(5)],
                         [cmd |-> "Q", x1 |-> (Units(100) - thickness) \div 2 - Units(5),
                          y1 |-> Units(50) - Units(5),
                          x |-> (Units(100) - thickness) \div 2, y |-> Units(50)],
                         [cmd |-> "Q", x1 |-> (Units(100) - thickness) \div 2 + Units(5),
                          y1 |-> Units(50) + Units(5),
                          x |-> (Units(100) - thickness) \div 2,
                          y |-> (Units(100) + outer_diameter) \div 2 - Units(5)] >>,
                stroke |-> "#000000", stroke_width |-> thickness, fill |-> "none"],
               [tag |-> "line", x2 |-> (Units(100) - thickness) \div 2 - Units(10),
                y1 |-> (Units(100) - inner_diameter) \div 2,
                x1 |-> (Units(100) + thickness) \div 2 + Units(10),
                y2 |-> (Units(100) + inner_diameter) \div 2,
                stroke |-> "#FFFFFF", stroke_width |-> thickness] >>)

washer_split_top(diameter) ==
    LET outer_radius == diameter \div 2
        inner_radius == outer_radius \div 2
        gap_angle == 20
        gap_width == diameter \div 10
    IN  svg(Frame,
            annulus(outer_radius, inner_radius, "#000000")
            \o << [tag |-> "rect", x |-> Units(50), y |-> Units(50) - gap_width \div 2,
                   width |-> Units(50), height |-> gap_width,
                   transform |-> <<"rotate", -gap_angle, 50, 50>>, fill |-> "#FFFFFF"] >>)

washer_star_inner_side(diameter) == washer_std_side(diameter, diameter \div 2)

washer_star_inner_top(diameter) ==
    LET outer_radius == Frac(diameter, 5, 10)
        inner_radius == Frac(outer_radius, 5, 10)
        teeth == star(12, Frac(outer_radius, 8, 10), Frac(inner_radius, 8, 10))
    IN  svg(Frame,
            annulus(outer_radius, inner_radius, "#000000")
            \o << [tag |-> "path", d |-> teeth, fill |-> "#FFFFFF"],
                  [tag |-> "circle", cx |-> Units(50), cy |-> Units(50),
                   r |-> Frac(inner_radius, 11, 10), fill |-> "#FFFFFF"] >>)

washer_star_outer_side(diameter) == washer_std_side(diameter, diameter \div 2)

washer_star_outer_top(diameter) ==
    LET outer_radius == Frac(diameter, 4, 10)
        inner_radius == Frac(outer_radius, 7, 10)
        teeth == star(12, Frac(outer_radius, 13, 10), inner_radius)
    IN  svg(Frame,
            << [tag |-> "path", d |-> teeth, fill |-> "#000000"],
               [tag |-> "circle", cx |-> Units(50), cy |-> Units(50), r |-> outer_radius,
                fill |-> "#000000"],
               [tag |-> "circle", cx |-> Units(50), cy |-> Units(50), r |-> inner_radius,
                fill |-> "#FFFFFF"] >>)

nut_standard_top(diameter) == svg(Frame, nut_hex_top(diameter, "#000000"))

nut_standard_side(diameter) == svg(Frame, nut_hex_side(Units(30), diameter, "#000000"))

nut_thin_top(diameter) == svg(Frame, nut_hex_top(diameter, "#000000"))

nut_thin_side(diameter) == svg(Frame, nut_hex_side(Units(30), diameter, "#000000"))

nut_lock_top(diameter) ==
    svg(Frame,
        nut_hex_top(diameter, "#000000")
        \o << [tag |-> "circle", cx |-> Units(50), cy |-> Units(50),
               r |-> Frac(diameter, 2, 10), fill |-> "#FFFFFF"] >>)

nut_lock_side(diameter) ==
    LET thickness == Units(30)
        radius == Frac(diameter, 5, 10)
    IN  svg(ShiftedFrame,
            nut_hex_side(thickness, diameter, "#000000")
            \o << [tag |-> "rect", x |-> Units(50),
                   y |-> Units(50) - radius + Frac(diameter, 1, 10),
                   width |-> thickness, height |-> Frac(diameter, 8, 10),
                   fill |-> "#000000"] >>)

nut_flange_top(diameter) ==
    svg(Frame,
        << [tag |-> "circle", cx |-> Units(50), cy |-> Units(50),
            r |-> Frac(diameter, 6, 10), fill |-> "#000000"] >>
        \o nut_hex_top(Frac(diameter, 9, 10), "#FFFFFF")
        \o nut_hex_top(Frac(diameter, 8, 10), "#000000"))

nut_flange_side(diameter) ==
    LET thickness == Units(30)
        flange_diameter == Frac(diameter, 12, 10)
        flange_thickness == Frac(thickness, 4, 10)
    IN  svg(Frame,
            nut_hex_side(thickness, diameter, "#000000")
            \o << [tag |-> "rect", x |-> (Units(100) - thickness) \div 2,
                   y |-> (Units(100) - flange_diameter) \div 2,
                   width |-> flange_thickness, height |-> flange_diameter,
                   fill |-> "#000000"] >>)

nut_cap_top(diameter) ==
    LET pts == polygon_points(6, diameter, Units(50), Units(50), 0)
    IN  svg(Frame,
            << [tag |-> "polygon", points |-> pts, fill |-> "#000000"],
               [tag |-> "circle", cx |-> Units(50), cy |-> Units(50),
                r |-> Frac(diameter, 4, 10), fill |-> "#FFFFFF"],
               [tag |-> "circle", cx |-> Units(50), cy |-> Units(50),
                r |-> Frac(diameter, 35, 100), fill |-> "#000000"] >>)

nut_cap_side(diameter) ==
    LET thickness == Units(20)
    IN  svg(Frame,
            comment
            \o << [tag |-> "ellipse", cx |-> Units(50), cy |-> Units(50),
                   rx |-> Frac(diameter, 4, 10), ry |-> Frac(diameter, 4, 10),
                   fill |-> "#000000"] >>
            \o comment
            \o << [tag |-> "rect", x |-> 0, y |-> 0, height |-> Units(100),
                   width |-> Units(50), fill |-> "#FFFFFF"] >>
            \o comment
            \o << [tag |-> "rect", x |-> Units(100) \div 2 - thickness,
                   y |-> (Units(100) - diameter) \div 2,
                   width |-> thickness, height |-> diameter, fill |-> "#000000"],
                  [tag |-> "rect", x |-> Units(50), y |-> 0,
                   width |-> Frac(thickness, 2, 10), height |-> Units(100),
                   fill |-> "#FFFFFF"] >>)

nut_wing_top(diameter) ==
    LET wing_width == Frac(diameter, 25, 100)
        wing_height == Frac(diameter, 25, 100)
        wing_offset == 0
    IN  svg(Frame,
            annulus(Frac(diameter, 4, 10), Frac(diameter, 2, 10), "#000000")
            \o << [tag |-> "rect", x |-> (Units(100) - wing_width) \div 2, y |-> wing_offset,
                   width |-> wing_width, height |-> wing_height,
                   transform |-> <<"rotate", 45, 50, 50>>, fill |-> "#000000"],
                  [tag |-> "rect", x |-> (Units(100) - wing_width) \div 2,
                   y |-> Units(100) - wing_height - wing_offset,
                   width |-> wing_width, height |-> wing_height,
                   transform |-> <<"rotate", 45, 50, 50>>, fill |-> "#000000"] >>)

nut_wing_side(diameter) ==
    LET wing_width == Frac(diameter, 6, 10)
        wing_height == Frac(diameter, 2, 10)
        inner_diameter == Frac(diameter, 6, 10)
        base_y == (Units(100) - inner_diameter) \div 2
        wing_angle == 60
    IN  svg(ShiftedFrame,
            comment
            \o << [tag |-> "rect", x |-> Units(50), y |-> base_y + wing_height,
                   width |-> wing_width, height |-> wing_height,
                   transform |-> <<"rotate", -wing_angle, 50, 50>>, fill |-> "#000000"] >>
            \o comment
            \o << [tag |-> "rect", x |-> Units(50), y |-> base_y + wing_height,
                   width |-> wing_width, height |-> wing_height,
                   transform |-> <<"rotate", wing_angle, 50, 50>>, fill |-> "#000000"] >>
            \o comment
            \o nut_hex_side(Units(30), inner_diameter, "#000000"))

insert_heat_top(diameter) ==
    LET points_str == star(20, Frac(diameter, 6, 10), Frac(diameter, 5, 10))
    IN  svg(Frame,
            << [tag |-> "path", d |-> points_str, fill |-> "#000000"],
               [tag |-> "circle", cx |-> Units(50), cy |-> Units(50),
                r |-> Frac(diameter, 2, 10), fill |-> "#FFFFFF"] >>)

insert_heat_side(diameter, length) ==
    LET wide_height == length \div 3
        wide_width == Frac(diameter, 5, 10)
        narrow_height == length \div 6
        narrow_width == Frac(diameter, 4, 10)
        top == Max(Units(100) - Frac(length, 13, 10), 0)
        left == Units(5)
        rects ==
            << [tag |-> "rect", x |-> left + (Units(100) - wide_width) \div 2, y |-> top,
                width |-> wide_width, height |-> wide_height, fill |-> "#000000"],
               [tag |-> "rect", x |-> left + (Units(100) - narrow_width) \div 2,
                y |-> top + wide_height,
                width |-> narrow_width, height |-> narrow_height, fill |-> "#000000"],
               [tag |-> "rect", x |-> left + (Units(100) - wide_width) \div 2,
                y |-> top + wide_height + narrow_height,
                width |-> wide_width, height |-> wide_height, fill |-> "#000000"],
               [tag |-> "rect", x |-> left + (Units(100) - narrow_width) \div 2,
                y |-> top + wide_height + narrow_height + wide_height,
                width |-> narrow_width, height |-> narrow_height, fill |-> "#000000"] >>
        knurl_spacing == 10
        knurl_height == wide_height
        xs == Range(((Units(100) - wide_width) \div 2) \div 1000,
                    ((Units(100) + wide_width) \div 2) \div 1000 + knurl_spacing,
                    knurl_spacing)
        left_knurl_lines ==
            [k \in 1..Len(xs) |->
                LET x1 == Units(xs[k]) + left
                    y1 == top
                    x2 == x1 - tan_30(knurl_height)
                    y2 == top + knurl_height
                IN  [tag |-> "line", x1 |-> x1, y1 |-> y1, x2 |-> x2, y2 |-> y2,
                     stroke |-> "#FFFFFF", stroke_width |-> 2]]
        right_knurl_lines ==
            [k \in 1..Len(xs) |->
                LET x1 == Units(xs[k]) + left
                    y1 == top + wide_height + narrow_height
                    x2 == x1 + tan_30(knurl_height)
                    y2 == top + wide_height + narrow_height + knurl_height
                IN  [tag |-> "line", x1 |-> x1, y1 |-> y1, x2 |-> x2, y2 |-> y2,
                     stroke |-> "#FFFFFF", stroke_width |-> 2]]
    IN  svg(Frame, comment \o rects \o comment \o left_knurl_lines \o right_knurl_lines)

insert_wood_top(diameter) ==
    LET teeth == [k \in 1..12 |->
                    [tag |-> "rect", x |-> Units(50), y |-> Units(50) + Frac(diameter, 4, 10),
                     width |-> Frac(diameter, 1, 10), height |-> Frac(diameter, 1, 10),
                     transform |-> <<"rotate", ((k - 1) * 360) \div 12, 50, 50>>,
                     fill |-> "#ffffff"]]
    IN  svg(Frame,
            << [tag |-> "circle", cx |-> Units(50), cy |-> Units(50),
                r |-> Frac(diameter, 5, 10), fill |-> "#000000"],
               [tag |-> "circle", cx |-> Units(50), cy |-> Units(50),
                r |-> Frac(diameter, 2, 10), fill |-> "#FFFFFF"] >>
            \o teeth)

insert_wood_side(diameter) ==
    LET thread_spacing == Units(8)
        radius == diameter \div 2
        threads == [k \in 1..7 |->
                      [tag |-> "line", x1 |-> Units(50) - radius,
                       y1 |-> Units(30) + (k - 1) * thread_spacing,
                       x2 |-> Units(50) + radius,
                       y2 |-> Units(30) + (k - 1) * thread_spacing - Frac(radius, 4, 10),
                       stroke |-> "#FFFFFF", stroke_width |-> 2]]
    IN  svg(Frame,
            comment
            \o << [tag |-> "rect", x |-> Units(50) - radius,
                   y |-> (Units(100) - Frac(diameter, 7, 10)) \div 2,
                   width |-> diameter, height |-> Frac(diameter, 7, 10),
                   fill |-> "#000000"] >>
            \o comment
            \o << [tag |-> "path",
                   d |-> << [cmd |-> "M", x |-> Units(50) - radius, y |-> Units(70)],
                            [cmd |-> "L", x |-> Units(50) + radius, y |-> Units(70)],
                            [cmd |-> "L", x |-> Units(50) + Frac(radius, 7, 10), y |-> Units(90)],
                            [cmd |-> "L", x |-> Units(50) - Frac(radius, 7, 10), y |-> Units(90)],
                            [cmd |-> "Z"] >>,
                   fill |-> "#000000"] >>
            \o comment
            \o threads
            \o << [tag |-> "rect", x |-> Units(45), y |-> Units(25), width |-> Units(10),
                   height |-> Units(15), fill |-> "#FFFFFF"] >>)

insert_press_side(diameter) ==
    LET radius == diameter \div 2
        height == Frac(diameter, 12, 10)
        section_height == Frac(height, 25, 100)
        groove_spacing == Frac(diameter, 2, 10)
        num_grooves == 8
        upper_grooves ==
            [k \in 1..num_grooves |->
                [tag |-> "rect",
                 x |-> Units(50) - radius + (k - 1) * groove_spacing - groove_spacing \div 3,
                 y |-> Units(100) - height - section_height,
                 width |-> Units(2), height |-> section_height, fill |-> "#FFFFFF"]]
        lower_grooves ==
            [k \in 1..num_grooves |->
                [tag |-> "rect",
                 x |-> Units(50) - radius + (k - 1) * groove_spacing - groove_spacing \div 2,
                 y |-> (Units(100) - height) \div 2 + height - section_height,
                 width |-> Units(2), height |-> section_height, fill |-> "#FFFFFF"]]
    IN  svg(Frame,
            comment
            \o << [tag |-> "rect", x |-> Units(50) - radius, y |-> (Units(100) - height) \div 2,
                   width |-> diameter, height |-> section_height, fill |-> "#000000"] >>
            \o comment
            \o << [tag |-> "rect", x |-> Units(50) - radius,
                   y |-> (Units(100) - height) \div 2 + height - section_height,
                   width |-> diameter, height |-> section_height, fill |-> "#000000"] >>
            \o comment
            \o << [tag |-> "rect", x |-> Units(50) - Frac(radius, 7, 10),
                   y |-> (Units(100) - height) \div 2 + section_height,
                   width |-> Frac(diameter, 7, 10), height |-> height - 2 * section_height,
                   fill |-> "#000000"] >>
            \o comment
            \o upper_grooves
            \o lower_grooves)

head_hex_top(diameter) ==
    LET flat_to_flat == sqrt3_half(diameter)
        points_str == polygon_points(6, flat_to_flat, Units(50), Units(50), 30)
    IN  svg(Frame, << [tag |-> "polygon", points |-> points_str, fill |-> "#000000"] >>)

head_socket_top(diameter) ==
    LET flat_to_flat == diameter \div 2
        points_str == polygon_points(6, flat_to_flat, Units(50), Units(50), 0)
    IN  svg(Frame,
            << [tag |-> "circle", cx |-> Units(50), cy |-> Units(50),
                r |-> Frac(diameter, 5, 10), fill |-> "#000000"],
               [tag |-> "polygon", points |-> points_str, fill |-> "#FFFFFF"] >>)

head_torx_top(diameter) ==
    LET lobes == 6
        path == star(lobes, Frac(diameter, 3, 10), Frac(diameter, 2, 10))
    IN  svg(Frame,
            << [tag |-> "circle", cx |-> Units(50), cy |-> Units(50),
                r |-> Frac(diameter, 5, 10), fill |-> "#000000"],
               [tag |-> "path", d |-> path, fill |-> "#FFFFFF"] >>)

head_square_top(diameter) ==
    LET square_size == Frac(diameter, 4, 10)
    IN  svg(Frame,
            << [tag |-> "circle", cx |-> Units(50), cy |-> Units(50),
                r |-> Frac(diameter, 5, 10), fill |-> "#000000"],
               [tag |-> "rect", x |-> Units(50) - square_size \div 2,
                y |-> Units(50) - square_size \div 2,
                width |-> square_size, height |-> square_size, fill |-> "#FFFFFF"] >>)

head_slotted_top(diameter) ==
    LET radius == Frac(diameter, 5, 10)
    IN  svg(Frame,
            << [tag |-> "circle", cx |-> Units(50), cy |-> Units(50), r |-> radius,
                fill |-> "#000000"] >>
            \o slot(Units(75), Units(10), 0))

head_phillips_top(diameter) ==
    LET radius == Frac(diameter, 5, 10)
    IN  svg(Frame,
            << [tag |-> "circle", cx |-> Units(50), cy |-> Units(50), r |-> radius,
                fill |-> "#000000"] >>
            \o slot(Units(75), Units(10), 0)
            \o slot(Units(75), Units(10), 90))

head_pozidriv_top(diameter) ==
    svg(Frame,
        << [tag |-> "circle", cx |-> Units(50), cy |-> Units(50),
            r |-> Frac(diameter, 5, 10), fill |-> "#000000"] >>
        \o slot(Units(75), Units(10), 0)
        \o slot(Units(75), Units(10), 90)
        \o slot(Units(50), Units(5), 45)
        \o slot(Units(50), Units(5), -45))

bearing_side(outer_diameter, inner_diameter) ==
    LET thickness == outer_diameter \div 3
    IN  svg(Frame,
            << [tag |-> "rect", x |-> (Units(100) - thickness) \div 2,
                y |-> (Units(100) - outer_diameter) \div 2,
                width |-> thickness, height |-> outer_diameter, fill |-> "#000000"],
               [tag |-> "rect", x |-> (Units(100) - thickness) \div 2,
                y |-> (Units(100) - inner_diameter) \div 2,
                width |-> thickness, height |-> inner_diameter, fill |-> "#FFFFFF"] >>)

bearing_flange_side(outer_diameter, inner_diameter) ==
    LET thickness == outer_diameter \div 3
        flange_diameter == Frac(outer_diameter, 12, 10)
        flange_height == (flange_diameter - outer_diameter) \div 2
    IN  svg(Frame,
            << [tag |-> "rect", x |-> (Units(100) - thickness) \div 2,
                y |-> (Units(100) - outer_diameter) \div 2,
                width |-> thickness, height |-> outer_diameter, fill |-> "#000000"],
               [tag |-> "rect", x |-> (Units(100) - thickness) \div 2,
                y |-> (Units(100) - flange_diameter) \div 2,
                width |-> flange_height, height |-> flange_diameter, fill |-> "#000000"],
               [tag |-> "rect", x |-> (Units(100) - thickness) \div 2,
                y |-> (Units(100) - inner_diameter) \div 2,
                width |-> thickness, height |-> inner_diameter, fill |-> "#FFFFFF"] >>)

bearing_top(outer_diameter, inner_diameter) ==
    LET outer_radius == Frac(outer_diameter, 5, 10)
        inner_radius == Frac(inner_diameter, 5, 10)
    IN  svg(Frame,
            << [tag |-> "circle", cx |-> Units(50), cy |-> Units(50), r |-> outer_radius,
                fill |-> "#000000"],
               [tag |-> "circle", cx |-> Units(50), cy |-> Units(50),
                r |-> Frac(outer_radius, 8, 10), fill |-> "#FFFFFF"],
               [tag |-> "circle", cx |-> Units(50), cy |-> Units(50),
                r |-> Frac(inner_radius, 12, 10), fill |-> "#000000"],
               [tag |-> "circle", cx |-> Units(50), cy |-> Units(50), r |-> inner_radius,
                fill |-> "#FFFFFF"] >>)

\* The coil lines of spring_side from coil i on: the loop stops at the first coil
\* that would end below end_y, drawing it to end_y when it starts above end_y.
RECURSIVE spring_coils(_, _, _, _, _, _, _)
spring_coils(i, num_coils, start_x, end_x, start_y, end_y, diameter) ==
    LET y == start_y + (i * diameter * 2) \div num_coils
        y_next == start_y + ((i + 1) * diameter * 2) \div num_coils
    IN  IF i >= num_coils THEN <<>>
        ELSE IF y_next > end_y
        THEN IF y < end_y
             THEN << [tag |-> "line", x1 |-> start_x, y1 |-> y, x2 |-> end_x, y2 |-> end_y,
                      stroke |-> "#000000", stroke_width |-> 5] >>
             ELSE <<>>
        ELSE << [tag |-> "line", x1 |-> start_x, y1 |-> y, x2 |-> end_x, y2 |-> y_next,
                 stroke |-> "#000000", stroke_width |-> 5] >>
             \o spring_coils(i + 1, num_coils, start_x, end_x, start_y, end_y, diameter)

spring_side(diameter, length) ==
    LET start_y == (Units(100) - length) \div 2
        end_y == start_y + length
        start_x == (Units(100) - diameter) \div 2
        end_x == start_x + diameter
        num_coils == 7
        lines == spring_coils(0, num_coils, start_x, end_x, start_y, end_y, diameter)
    IN  svg(Frame,
            << [tag |-> "line", x1 |-> start_x, y1 |-> start_y, x2 |-> end_x, y2 |-> start_y,
                stroke |-> "#000000", stroke_width |-> 8],
               [tag |-> "line", x1 |-> start_x, y1 |-> end_y, x2 |-> end_x, y2 |-> end_y,
                stroke |-> "#000000", stroke_width |-> 8] >>
            \o lines)

spring_top(diameter) ==
    LET outer_radius == Frac(diameter, 5, 10)
        coil_radius == Frac(diameter, 35, 100)
    IN  svg(Frame,
            << [tag |-> "circle", cx |-> Units(50), cy |-> Units(50), r |-> outer_radius,
                fill |-> "#000000"],
               [tag |-> "circle", cx |-> Units(50), cy |-> Units(50), r |-> coil_radius,
                fill |-> "#FFFFFF"] >>)

(***************************************************************************)
(* shapes.py: the registrations made while the module is imported          *)
(***************************************************************************)
\* The decorators of shapes.py in the order the import applies them.
Catalog ==
    << [which |-> "side", func |-> "button_head_side",
        names |-> <<"button_head", "button">>],
       [which |-> "side", func |-> "cap_head_side",
        names |-> <<"cap_head", "cap">>],
       [which |-> "side", func |-> "hex_head_side",
        names |-> <<"hex_head", "hex", "bolt">>],
       [which |-> "side", func |-> "flush_head_side",
        names |-> <<"flush_head", "flat_head", "flat", "countersunk">>],
       [which |-> "side", func |-> "wood_screw_side",
        names |-> <<"wood_screw", "wood">>],
       [which |-> "side", func |-> "washer_std_side",
        names |-> <<"washer_std", "washer">>],
       [which |-> "top", func |-> "washer_std_top",
        names |-> <<"washer_std", "washer">>],
       [which |-> "side", func |-> "washer_fender_side",
        names |-> <<"washer_fender", "fender">>],
       [which |-> "top", func |-> "washer_fender_top",
        names |-> <<"washer_fender", "fender">>],
       [which |-> "side", func |-> "washer_split_side",
        names |-> <<"washer_split", "split">>],
       [which |-> "top", func |-> "washer_split_top",
        names |-> <<"washer_split", "split">>],
       [which |-> "side", func |-> "washer_star_inner_side",
        names |-> <<"washer_star_inner", "star_inner">>],
       [which |-> "top", func |-> "washer_star_inner_top",
        names |-> <<"washer_star_inner", "star_inner">>],
       [which |-> "side", func |-> "washer_star_outer_side",
        names |-> <<"washer_star_outer", "star_outer", "star">>],
       [which |-> "top", func |-> "washer_star_outer_top",
        names |-> <<"washer_star_outer", "star_outer", "star">>],
       [which |-> "top", func |-> "nut_standard_top",
        names |-> <<"nut_standard", "nut">>],
       [which |-> "side", func |-> "nut_standard_side",
        names |-> <<"nut_standard", "nut">>],
       [which |-> "top", func |-> "nut_thin_top",
        names |-> <<"nut_thin", "thin_nut">>],
       [which |-> "side", func |-> "nut_thin_side",
        names |-> <<"nut_thin", "thin_nut">>],
       [which |-> "top", func |-> "nut_lock_top",
        names |-> <<"nut_lock", "nyloc">>],
       [which |-> "side", func |-> "nut_lock_side",
        names |-> <<"nut_lock", "nyloc">>],
       [which |-> "top", func |-> "nut_flange_top",
        names |-> <<"nut_flange", "flange_nut">>],
       [which |-> "side", func |-> "nut_flange_side",
        names |-> <<"nut_flange", "flange_nut">>],
       [which |-> "top", func |-> "nut_cap_top",
        names |-> <<"nut_cap", "cap_nut", "acorn", "acorn_nut">>],
       [which |-> "side", func |-> "nut_cap_side",
        names |-> <<"nut_cap", "cap_nut", "acorn", "acorn_nut">>],
       [which |-> "top", func |-> "nut_wing_top",
        names |-> <<"nut_wing", "wing_nut", "wing">>],
       [which |-> "side", func |-> "nut_wing_side",
        names |-> <<"nut_wing", "wing_nut", "wing">>],
       [which |-> "top", func |-> "insert_heat_top",
        names |-> <<"insert_heat", "heat_insert", "heat_set_insert", "hsi", "heat_set", "insert_press">>],
       [which |-> "side", func |-> "insert_heat_side",
        names |-> <<"insert_heat", "heat_insert", "heat_set_insert", "hsi", "heat_set">>],
       [which |-> "top", func |-> "insert_wood_top",
        names |-> <<"insert_wood", "wood_insert">>],
       [which |-> "side", func |-> "insert_wood_side",
        names |-> <<"insert_wood", "wood_insert">>],
       [which |-> "side", func |-> "insert_press_side",
        names |-> <<"insert_press", "press_insert">>],
       [which |-> "top", func |-> "head_hex_top",
        names |-> <<"head_hex", "hex_head", "hex">>],
       [which |-> "top", func |-> "head_socket_top",
        names |-> <<"head_socket", "socket_head", "socket">>],
       [which |-> "top", func |-> "head_torx_top",
        names |-> <<"head_torx", "torx_head", "torx">>],
       [which |-> "top", func |-> "head_square_top",
        names |-> <<"head_square", "square_head", "square", "robertson", "robertson_head">>],
       [which |-> "top", func |-> "head_slotted_top",
        names |-> <<"head_slotted", "slotted_head", "slotted", "flat_head", "flat">>],
       [which |-> "top", func |-> "head_phillips_top",
        names |-> <<"head_phillips", "phillips_head", "phillips">>],
       [which |-> "top", func |-> "head_pozidriv_top",
        names |-> <<"head_pozidriv", "pozidriv_head", "pozidriv", "pozi">>],
       [which |-> "side", func |-> "bearing_side",
        names |-> <<"bearing">>],
       [which |-> "side", func |-> "bearing_flange_side",
        names |-> <<"bearing_flange", "flange_bearing">>],
       [which |-> "top", func |-> "bearing_top",
        names |-> <<"bearing">>],
       [which |-> "side", func |-> "spring_side",
        names |-> <<"spring", "coil", "coil_spring">>],
       [which |-> "top", func |-> "spring_top",
        names |-> <<"spring", "coil", "coil_spring">>] >>

\* A registered generator called with no arguments: its defaults apply.
call_generator(func) ==
    CASE func = "button_head_side" -> button_head_side
      [] func = "cap_head_side" -> cap_head_side
      [] func = "hex_head_side" -> hex_head_side
      [] func = "flush_head_side" -> flush_head_side
      [] func = "wood_screw_side" -> wood_screw_side
      [] func = "washer_std_side" -> washer_std_side(Units(80), Units(35))
      [] func = "washer_std_top" -> washer_std_top(Units(80), Units(35))
      [] func = "washer_fender_side" -> washer_fender_side(Units(80))
      [] func = "washer_fender_top" -> washer_fender_top(Units(80))
      [] func = "washer_split_side" -> washer_split_side(Units(80))
      [] func = "washer_split_top" -> washer_split_top(Units(80))
      [] func = "washer_star_inner_side" -> washer_star_inner_side(Units(80))
      [] func = "washer_star_inner_top" -> washer_star_inner_top(Units(80))
      [] func = "washer_star_outer_side" -> washer_star_outer_side(Units(80))
      [] func = "washer_star_outer_top" -> washer_star_outer_top(Units(80))
      [] func = "nut_standard_top" -> nut_standard_top(Units(80))
      [] func = "nut_standard_side" -> nut_standard_side(Units(80))
      [] func = "nut_thin_top" -> nut_thin_top(Units(80))
      [] func = "nut_thin_side" -> nut_thin_side(Units(80))
      [] func = "nut_lock_top" -> nut_lock_top(Units(80))
      [] func = "nut_lock_side" -> nut_lock_side(Units(80))
      [] func = "nut_flange_top" -> nut_flange_top(Units(80))
      [] func = "nut_flange_side" -> nut_flange_side(Units(80))
      [] func = "nut_cap_top" -> nut_cap_top(Units(80))
      [] func = "nut_cap_side" -> nut_cap_side(Units(80))
      [] func = "nut_wing_top" -> nut_wing_top(Units(80))
      [] func = "nut_wing_side" -> nut_wing_side(Units(80))
      [] func = "insert_heat_top" -> insert_heat_top(Units(80))
      [] func = "insert_heat_side" -> insert_heat_side(Units(80), Units(60))
      [] func = "insert_wood_top" -> insert_wood_top(Units(80))
      [] func = "insert_wood_side" -> insert_wood_side(Units(60))
      [] func = "insert_press_side" -> insert_press_side(Units(60))
      [] func = "head_hex_top" -> head_hex_top(Units(80))
      [] func = "head_socket_top" -> head_socket_top(Units(80))
      [] func = "head_torx_top" -> head_torx_top(Units(80))
      [] func = "head_square_top" -> head_square_top(Units(80))
      [] func = "head_slotted_top" -> head_slotted_top(Units(80))
      [] func = "head_phillips_top" -> head_phillips_top(Units(80))
      [] func = "head_pozidriv_top" -> head_pozidriv_top(Units(80))
      [] func = "bearing_side" -> bearing_side(Units(80), Units(30))
      [] func = "bearing_flange_side" -> bearing_flange_side(Units(80), Units(30))
      [] func = "bearing_top" -> bearing_top(Units(80), Units(30))
      [] func = "spring_side" -> spring_side(Units(40), Units(60))
      [] func = "spring_top" -> spring_top(Units(80))
      [] OTHER -> svg(Frame, << [tag |-> "rect", drawn_by |-> func] >>)

(***************************************************************************)
(* generator.py: the log levels and the log functions                      *)
(***************************************************************************)
DEBUG == -2
INFO == -1
NORMAL == 0
WARNING == 1
ERROR == 2

LogLevel == {DEBUG, INFO, NORMAL, WARNING, ERROR}

\* A test that leaves out the level of the function itself.
strictly_below(level, severity) == level < severity

\* The test each log function makes before it prints.
at_or_below(level, severity) == level <= severity

\* The call of xprint that a log function makes: the text and the file written to.
xprint(text, file) == << [text |-> text, file |-> file] >>

\* Each log function, given the current LOG_LEVEL: what it prints.  error()
\* writes to sys.stderr unless its caller names a file.
debug(level, msg) ==
    IF at_or_below(level, DEBUG) THEN xprint(<<"[DEBUG] ", msg>>, "sys.stdout") ELSE <<>>

info(level, msg) ==
    IF at_or_below(level, INFO) THEN xprint(<<"[INFO ] ", msg>>, "sys.stdout") ELSE <<>>

print(level, msg) ==
    IF at_or_below(level, NORMAL) THEN xprint(<<msg>>, "sys.stdout") ELSE <<>>

warn(level, msg) ==
    IF at_or_below(level, WARNING) THEN xprint(<<"[WARN ] ", msg>>, "sys.stdout") ELSE <<>>

error(level, msg, kwargs) ==
    IF at_or_below(level, ERROR)
    THEN xprint(<<"[ERROR] ", msg>>, IF "file" \in DOMAIN kwargs THEN kwargs.file ELSE "sys.stderr")
    ELSE <<>>

\* The log function of the name called with the message.
log_call(fn, level, msg, kwargs) ==
    CASE fn = "debug" -> debug(level, msg)
      [] fn = "info" -> info(level, msg)
      [] fn = "print" -> print(level, msg)
      [] fn = "warn" -> warn(level, msg)
      [] fn = "error" -> error(level, msg, kwargs)

(***************************************************************************)
(* generator.py: helpers of generate_labels                                *)
(***************************************************************************)
LABEL_WIDTH_MM == 36
\* 7.7 mm, in tenths of a millimetre.
LABEL_HEIGHT_MM == 77

InvalidQrType == "ValueError: Invalid qr_type"
InvalidSvg == "ValueError: Invalid SVG content"
KeyError == "KeyError"

\* A string that is a URL, a payload or a response body is the sequence of its
\* tokens: a scheme prefix ("http://", "https://") is one token, the rest another.
\* A string read from a file or from the network is a text between optional
\* leading and trailing white space.
NoUrl == <<>>

Padded(text, lead, trail) == [kind |-> "str", lead |-> lead, text |-> text, trail |-> trail]

Exact(text) == Padded(text, FALSE, FALSE)

\* str.strip(): the text without the white space around it.
strip(s) == s.text

\* A strip() that leaves the string as it is read.
strip_nothing(s) == IF s.lead \/ s.trail THEN <<" ">> \o s.text ELSE s.text

\* str.startswith(prefix) for a scheme prefix.
startswith(text, prefix) == text # <<>> /\ text[1] = prefix

\* sanitize_svg: the XML declaration, the DOCTYPE and the comments are removed;
\* what remains must start with "<" and end with ">", that is with a tag and not
\* with character data (a "#text" token).
sanitize_svg(fragment) ==
    Bind(SelectSeq(fragment, LAMBDA t : t.tag \notin {"?xml", "!DOCTYPE", "!--"}),
         LAMBDA kept :
            IF kept # <<>> /\ (kept[1].tag = "#text" \/ kept[Len(kept)].tag = "#text")
            THEN [svg |-> <<>>, raised |-> InvalidSvg]
            ELSE [svg |-> kept, raised |-> NoException])

\* The payload with one scheme prefix removed (lines 121-125).
strip_scheme(payload) ==
    IF startswith(payload, "http://") THEN Tail(payload)
    ELSE IF startswith(payload, "https://") THEN Tail(payload)
    ELSE payload

\* A shortener that removes the scheme prefix of the body as it is received.
shorten_url_unstripped(url, response) ==
    IF ~startswith(url, "http://") /\ ~startswith(url, "https://")
    THEN [value |-> url, requests |-> <<>>, warnings |-> <<>>, raised |-> NoException]
    ELSE IF response.shortener = "ok"
    THEN [value |-> strip_scheme(strip_nothing(response.body)), requests |-> <<url>>,
          warnings |-> <<>>, raised |-> NoException]
    ELSE [value |-> url, requests |-> <<url>>, warnings |-> <<url>>,
          raised |-> NoException]

\* A shortener that asks v.gd whatever the string is.
shorten_url_always_asks(url, response) ==
    IF response.shortener = "ok"
    THEN [value |-> strip_scheme(strip(response.body)), requests |-> <<url>>,
          warnings |-> <<>>, raised |-> NoException]
    ELSE [value |-> url, requests |-> <<url>>, warnings |-> <<url>>,
          raised |-> NoException]

\* shorten_url: a string with no http(s) scheme is returned as it is, without a
\* request; otherwise v.gd is asked and its answer decides: a RequestException
\* (response.shortener is not "ok") is reported with warn() and the URL returned,
\* else the stripped body is returned with one scheme prefix removed.  The result
\* holds the value returned, the URLs requested, the URLs warned about and the
\* exception raised.
shorten_url(url, response) ==
    IF ~startswith(url, "http://") /\ ~startswith(url, "https://")
    THEN [value |-> url, requests |-> <<>>, warnings |-> <<>>, raised |-> NoException]
    ELSE IF response.shortener = "ok"
    THEN [value |-> strip_scheme(strip(response.body)), requests |-> <<url>>,
          warnings |-> <<>>, raised |-> NoException]
    ELSE [value |-> url, requests |-> <<url>>, warnings |-> <<url>>,
          raised |-> NoException]

\* The calls of segno.make: a micro QR code is tried first and, when the payload
\* does not fit one (response.micro_fits), a standard one is made.
segno_calls(payload, qr_type_arg, response) ==
    IF qr_type_arg = "micro" /\ ~response.micro_fits
    THEN << [payload |-> payload, micro |-> TRUE], [payload |-> payload, micro |-> FALSE] >>
    ELSE << [payload |-> payload, micro |-> qr_type_arg = "micro"] >>

\* A make_qr_svg that validates qr_type only once the payload is shortened.
make_qr_svg_late_check(content, qr_type_arg, response) ==
    IF content = NoUrl
    THEN [svg |-> <<>>, size |-> [modules |-> 0], raised |-> NoException,
          requests |-> <<>>, segno |-> <<>>]
    ELSE Bind(shorten_url(content, response), LAMBDA short :
            IF qr_type_arg \notin {"micro", "standard"}
            THEN [svg |-> <<>>, size |-> [modules |-> 0], raised |-> InvalidQrType,
                  requests |-> short.requests, segno |-> <<>>]
            ELSE Bind(IF qr_type_arg = "micro" THEN short.value ELSE content,
                      LAMBDA payload :
                        [svg |-> << [tag |-> "svg", qr |-> payload,
                                     micro |-> qr_type_arg = "micro" /\ response.micro_fits],
                                    [tag |-> "path"], [tag |-> "/svg"] >>,
                         size |-> [symbol_size |-> payload,
                                   micro |-> qr_type_arg = "micro" /\ response.micro_fits],
                         raised |-> NoException,
                         requests |-> short.requests,
                         segno |-> segno_calls(payload, qr_type_arg, response)]))

\* make_qr_svg: the QR code of the content as a fragment and its size in modules,
\* with the requests made to the shortener and the calls of segno.make.  Whether
\* the payload fits a micro QR code is segno's decision (response.micro_fits).
make_qr_svg(content, qr_type_arg, response) ==
    IF content = NoUrl
    THEN [svg |-> <<>>, size |-> [modules |-> 0], raised |-> NoException,
          requests |-> <<>>, segno |-> <<>>]
    ELSE IF qr_type_arg \notin {"micro", "standard"}
    THEN [svg |-> <<>>, size |-> [modules |-> 0], raised |-> InvalidQrType,
          requests |-> <<>>, segno |-> <<>>]
    ELSE Bind(IF qr_type_arg = "micro" THEN shorten_url(content, response)
              ELSE [value |-> content, requests |-> <<>>],
              LAMBDA short :
                [svg |-> << [tag |-> "svg", qr |-> short.value,
                             micro |-> qr_type_arg = "micro" /\ response.micro_fits],
                            [tag |-> "path"], [tag |-> "/svg"] >>,
                 size |-> [symbol_size |-> short.value,
                           micro |-> qr_type_arg = "micro" /\ response.micro_fits],
                 raised |-> NoException,
                 requests |-> short.requests,
                 segno |-> segno_calls(short.value, qr_type_arg, response)])

(***************************************************************************)
(* generator.py: spreadsheet handling                                      *)
(***************************************************************************)
\* A spreadsheet file is its suffix and its records, the first one the header:
\* a record is the sequence of its cells, a cell of the header a column name and
\* a cell of a data record a string read from the file.
REQUIRED_COLUMNS == <<"name", "description">>

NoHeaders == "ValueError: No headers found"
MissingColumns == "ValueError: Missing required columns"
UnsupportedFormat == "ValueError: Unsupported spreadsheet format"
NoData == "ValueError: No data to write"
AttributeError == "AttributeError: 'NoneType' object has no attribute 'strip'"

\* The value csv.DictReader gives a column that the record is too short for.
NoneCell == [kind |-> "None"]

\* The empty string, as the value of the column.
empty_string(column) == IF column \in {"top_symbol", "side_symbol"} THEN "" ELSE <<>>

columns_of(headers) == { headers[i] : i \in 1..Len(headers) }

\* The position of the column in the header that a dict built from it keeps: the
\* last one.
column_index(headers, column) ==
    CHOOSE i \in 1..Len(headers) :
        headers[i] = column /\ \A j \in (i + 1)..Len(headers) : headers[j] # column

\* csv.DictReader: the record as a dict from the columns of the header to the
\* cells, None for the columns that the record does not reach.
DictReader(headers, record) ==
    [column \in columns_of(headers) |->
        IF column_index(headers, column) <= Len(record)
        THEN record[column_index(headers, column)]
        ELSE NoneCell]

\* dict(zip(headers, record)) with None replaced by "", as parse_excel, parse_ods
\* and parse_numbers build it: the columns that the record reaches.
zip_dict(headers, record) ==
    Bind(SubSeq(headers, 1, IF Len(record) < Len(headers) THEN Len(record) ELSE Len(headers)),
         LAMBDA reached :
            [column \in columns_of(reached) |->
                IF record[column_index(reached, column)].kind = "None"
                THEN Exact(empty_string(column))
                ELSE record[column_index(reached, column)]])

\* row.get(key, "").strip() for one of the five keys.
get_stripped(row, key) ==
    IF key \notin DOMAIN row THEN [value |-> empty_string(key), raised |-> NoException]
    ELSE IF row[key].kind = "None" THEN [value |-> empty_string(key), raised |-> AttributeError]
    ELSE [value |-> strip(row[key]), raised |-> NoException]

\* The dict appended for one record (lines 198-206): exactly the five keys.
parsed_row(row) ==
    [name |-> get_stripped(row, "name").value,
     description |-> get_stripped(row, "description").value,
     top_symbol |-> get_stripped(row, "top_symbol").value,
     side_symbol |-> get_stripped(row, "side_symbol").value,
     reorder_url |-> get_stripped(row, "reorder_url").value]

\* The exception that building the dict of a record raises, if any.
parsed_row_raises(row) ==
    IF \E key \in {"name", "description", "top_symbol", "side_symbol", "reorder_url"} :
          get_stripped(row, key).raised # NoException
    THEN AttributeError
    ELSE NoException

\* The data records a reader yields: csv skips the records with no cell at all.
data_records(file) ==
    SelectSeq(SubSeq(file.records, 2, Len(file.records)), LAMBDA record : record # <<>>)

\* The missing_columns of the parsers.
missing_columns(headers) ==
    SelectSeq(REQUIRED_COLUMNS, LAMBDA column : column \notin columns_of(headers))

\* The loop over the records of a parser: the rows appended until a record raises.
parse_records(dicts, parser) ==
    IF \E i \in 1..Len(dicts) : parsed_row_raises(dicts[i]) # NoException
    THEN [rows |-> <<>>, raised |-> AttributeError, parser |-> parser]
    ELSE [rows |-> [i \in 1..Len(dicts) |-> parsed_row(dicts[i])], raised |-> NoException,
          parser |-> parser]

\* parse_csv(csv_file, delimiter): the rows returned, the exception raised and the
\* parser that ran.
parse_csv(file, delimiter) ==
    IF file.records = <<>>
    THEN [rows |-> <<>>, raised |-> NoHeaders, parser |-> <<"parse_csv", delimiter>>]
    ELSE IF missing_columns(file.records[1]) # <<>>
    THEN [rows |-> <<>>, raised |-> MissingColumns, parser |-> <<"parse_csv", delimiter>>]
    ELSE parse_records([i \in 1..Len(data_records(file)) |->
                            DictReader(file.records[1], data_records(file)[i])],
                       <<"parse_csv", delimiter>>)

\* parse_excel, parse_ods and parse_numbers: the header is the first row of the
\* sheet, and a cell with no value reads as "".
parse_sheet(file, parser) ==
    IF file.records = <<>> \/ missing_columns(file.records[1]) # <<>>
    THEN [rows |-> <<>>, raised |-> MissingColumns, parser |-> <<parser>>]
    ELSE parse_records([i \in 1..(Len(file.records) - 1) |->
                            zip_dict(file.records[1], file.records[i + 1])],
                       <<parser>>)

\* A dispatch on the suffix as it is written.
suffix_as_written(suffix) == suffix

\* str.lower() of a file suffix.
suffix_lower(suffix) ==
    CASE suffix = ".CSV" -> ".csv"
      [] suffix = ".Csv" -> ".csv"
      [] suffix = ".TSV" -> ".tsv"
      [] suffix = ".XLS" -> ".xls"
      [] suffix = ".XLSX" -> ".xlsx"
      [] suffix = ".Ods" -> ".ods"
      [] suffix = ".NUMBERS" -> ".numbers"
      [] suffix = ".TXT" -> ".txt"
      [] OTHER -> suffix

\* parse_spreadsheet: the parser is chosen by the lower-cased suffix.
parse_spreadsheet(file) ==
    Bind(suffix_lower(file.suffix), LAMBDA extension :
        CASE extension = ".csv" -> parse_csv(file, ",")
          [] extension = ".tsv" -> parse_csv(file, "\t")
          [] extension \in {".xls", ".xlsx"} -> parse_sheet(file, "parse_excel")
          [] extension = ".ods" -> parse_sheet(file, "parse_ods")
          [] extension = ".numbers" -> parse_sheet(file, "parse_numbers")
          [] OTHER -> [rows |-> <<>>, raised |-> UnsupportedFormat, parser |-> <<>>])

\* The keys of a row in the order they were set.
row_keys(row) ==
    SelectSeq(<<"name", "description", "top_symbol", "side_symbol", "reorder_url", "top_icon",
                "side_icon", "qr_svg", "label", "short_url">>,
              LAMBDA key : key \in DOMAIN row)

\* write_csv, write_excel and write_ods: the header is the keys of the first row,
\* and every row is written under it.
written_file(sheet_rows, suffix) ==
    [suffix |-> suffix,
     records |-> << row_keys(sheet_rows[1]) >> \o
                 [i \in 1..Len(sheet_rows) |->
                    [j \in 1..Len(row_keys(sheet_rows[1])) |->
                        Exact(sheet_rows[i][row_keys(sheet_rows[1])[j]])]]]

\* write_numbers: a row is appended to the table of a new document for each row
\* given, filled from the row under the header cells of that table.  Those cells
\* hold no column name, so no value of a row reaches the file: the model keeps no
\* column for them.
written_numbers(sheet_rows, suffix) ==
    [suffix |-> suffix, records |-> << <<>> >> \o [i \in 1..Len(sheet_rows) |-> <<>>]]

\* A write_spreadsheet that looks at the suffix before it looks at the rows.
write_spreadsheet_suffix_first(sheet_rows, suffix) ==
    IF suffix_lower(suffix) \notin {".csv", ".tsv", ".xlsx", ".ods", ".numbers"}
    THEN [written |-> <<>>, raised |-> UnsupportedFormat]
    ELSE IF sheet_rows = <<>> THEN [written |-> <<>>, raised |-> NoData]
    ELSE IF suffix_lower(suffix) = ".numbers"
    THEN [written |-> << written_numbers(sheet_rows, suffix) >>, raised |-> NoException]
    ELSE [written |-> << written_file(sheet_rows, suffix) >>, raised |-> NoException]

\* write_spreadsheet: the file written, if any, and the exception raised.
write_spreadsheet(sheet_rows, suffix) ==
    IF sheet_rows = <<>> THEN [written |-> <<>>, raised |-> NoData]
    ELSE IF suffix_lower(suffix) \in {".csv", ".tsv", ".xlsx", ".ods"}
    THEN [written |-> << written_file(sheet_rows, suffix) >>, raised |-> NoException]
    ELSE IF suffix_lower(suffix) = ".numbers"
    THEN [written |-> << written_numbers(sheet_rows, suffix) >>, raised |-> NoException]
    ELSE [written |-> <<>>, raised |-> UnsupportedFormat]

(***************************************************************************)
(* shorten_urls.py                                                         *)
(***************************************************************************)
\* The loop of shorten_urls_in_spreadsheet over one row: the row with its short_url.
\* is_url is imported from generator.py, which does not define it: what it answers
\* is an input of the model.
with_short_url(row, is_url, response) ==
    dict_set(row, "short_url",
             IF row.reorder_url # <<>> /\ is_url
             THEN shorten_url(row.reorder_url, response).value
             ELSE <<>>)

\* shorten_urls_in_spreadsheet(input_file, output_file): the file written, if any,
\* and the exception raised.
shorten_urls_in_spreadsheet(input_file, output_suffix, is_url, response) ==
    Bind(parse_spreadsheet(input_file), LAMBDA parsed :
        IF parsed.raised # NoException
        THEN [written |-> <<>>, raised |-> parsed.raised]
        ELSE write_spreadsheet([i \in 1..Len(parsed.rows) |->
                                   with_short_url(parsed.rows[i], is_url, response)],
                               output_suffix))

\* The names bound at the top level of generator.py once it is loaded: its imports,
\* its constants, the class LogLevel and its functions.
generator_names ==
    {"argparse", "io", "Path", "re", "sys", "quote", "segno", "Template", "cairosvg", "colorama",
     "requests", "shapes", "LABEL_WIDTH_MM", "LABEL_HEIGHT_MM", "LABEL_PRINTER_DPI", "LogLevel",
     "LOG_LEVEL", "xprint", "debug", "info", "print", "warn", "error", "read_template",
     "shorten_url", "make_qr_svg", "mm_to_px", "REQUIRED_COLUMNS", "OPTIONAL_COLUMNS",
     "IMAGE_COLUMNS", "parse_csv", "write_csv", "parse_excel", "write_excel", "parse_numbers",
     "write_numbers", "parse_ods", "write_ods", "parse_spreadsheet", "write_spreadsheet",
     "sanitize_svg", "generate_labels"}

\* The names shorten_urls.py imports from generator, in the order of the statement.
imported_names ==
    <<"is_url", "shorten_url", "parse_spreadsheet", "write_spreadsheet", "debug", "info", "error",
      "LogLevel">>

ImportError == "ImportError: cannot import name"

\* from <module> import <names>: the names are looked up one by one in the module,
\* and the first one it does not define raises ImportError.
import_from(module_names, names) ==
    IF \A i \in 1..Len(names) : names[i] \in module_names
    THEN [raised |-> NoException, missing |-> ""]
    ELSE [raised |-> ImportError,
          missing |-> names[CHOOSE i \in 1..Len(names) :
                               /\ names[i] \notin module_names
                               /\ \A j \in 1..(i - 1) : names[j] \in module_names]]

\* A call of one of the log functions of generator.py, or of the print of python
\* (shorten_urls.py does not import the print of generator.py).
log(fn, msg) == << [fn |-> fn, msg |-> msg] >>

\* The log calls of the loop of shorten_urls_in_spreadsheet for the rows from i on:
\* shorten_url warns when the request fails, and the loop reports the short URL.
RECURSIVE shorten_loop_calls(_, _, _, _)
shorten_loop_calls(sheet_rows, i, is_url, response) ==
    IF i > Len(sheet_rows) THEN <<>>
    ELSE (IF sheet_rows[i].reorder_url # <<>> /\ is_url
          THEN (IF shorten_url(sheet_rows[i].reorder_url, response).warnings # <<>>
                THEN log("warn", "URL shortening failed")
                ELSE <<>>) \o log("debug", "Shortened")
          ELSE <<>>)
         \o shorten_loop_calls(sheet_rows, i + 1, is_url, response)

\* The log calls made while shorten_urls_in_spreadsheet runs, in order, those of
\* parse_spreadsheet and write_spreadsheet included: nothing is logged by a parser
\* that raises, and write_spreadsheet raises for no rows before it logs anything.
shorten_urls_calls(input_file, output_suffix, is_url, response) ==
    Bind(parse_spreadsheet(input_file), LAMBDA parsed :
        IF parsed.raised # NoException THEN <<>>
        ELSE log("debug", "Parsed rows") \o log("debug", "Parsed rows")
             \o shorten_loop_calls(parsed.rows, 1, is_url, response)
             \o (IF parsed.rows = <<>> THEN <<>>
                 ELSE log("debug", "Writing rows")
                      \o (IF write_spreadsheet(parsed.rows, output_suffix).raised # NoException
                          THEN <<>>
                          ELSE log("info", "Shortened URLs, skipped")
                               \o log("builtins.print", "Updated spreadsheet written to"))))

\* What the calls print when the log functions read the level: the print of python
\* asks no level.
RECURSIVE printed_by(_, _)
printed_by(level, calls) ==
    IF calls = <<>> THEN <<>>
    ELSE (IF Head(calls).fn = "builtins.print"
          THEN xprint(<<Head(calls).msg>>, "sys.stdout")
          ELSE log_call(Head(calls).fn, level, Head(calls).msg, <<>>))
         \o printed_by(level, Tail(calls))

\* The level the command line asks for: -q gives ERROR, each -v lowers the level
\* by one down to DEBUG.
level_of_flags(quiet, verbose) == IF quiet THEN ERROR ELSE Max(DEBUG, NORMAL - verbose)

\* The block under __main__ of shorten_urls.py, entered once the module is loaded.
\* The assignments of lines 85 and 87 bind the name LOG_LEVEL in the namespace of
\* the script; the log functions read the LOG_LEVEL of the module generator, which
\* no statement of the script assigns.
shorten_urls_main(generator_LOG_LEVEL, argv, exists, is_url, response) ==
    Bind(IF ~exists THEN log("error", "Input file does not exist.")
         ELSE shorten_urls_calls(argv.input_file, argv.output_suffix, is_url, response)
              \o (IF shorten_urls_in_spreadsheet(argv.input_file, argv.output_suffix, is_url,
                                                 response).raised # NoException
                  THEN log("error", "Failed to process spreadsheet")
                  ELSE <<>>),
         LAMBDA calls :
            [main_LOG_LEVEL |-> level_of_flags(argv.quiet, argv.verbose),
             calls |-> calls,
             printed |-> printed_by(generator_LOG_LEVEL, calls),
             written |-> IF exists
                         THEN shorten_urls_in_spreadsheet(argv.input_file, argv.output_suffix,
                                                          is_url, response).written
                         ELSE <<>>,
             exit |-> IF exists /\ shorten_urls_in_spreadsheet(argv.input_file,
                                      argv.output_suffix, is_url, response).raised = NoException
                      THEN 0 ELSE 1])

\* python shorten_urls.py: the module is loaded, which runs the import of line 18,
\* and then the block under __main__.  An ImportError ends the run before any
\* argument is read.
run_shorten_urls(module_names, generator_LOG_LEVEL, argv, exists, is_url, response) ==
    IF import_from(module_names, imported_names).raised # NoException
    THEN [fn |-> "shorten_urls.py", raised |-> ImportError,
          missing |-> import_from(module_names, imported_names).missing,
          calls |-> <<>>, printed |-> <<>>, written |-> <<>>, exit |-> 1]
    ELSE [fn |-> "shorten_urls.py", raised |-> NoException, missing |-> ""]
         @@ shorten_urls_main(generator_LOG_LEVEL, argv, exists, is_url, response)

(***************************************************************************)
(* generator.py: the loop of generate_labels                               *)
(***************************************************************************)
\* row.get(key) for one of the pre-rendered columns: an absent column and an
\* empty one are both falsy, the empty fragment.
row_get(row, key) == IF key \in DOMAIN row THEN row[key] ELSE <<>>

\* A replace() that stops after the first occurrence.
replace_first(str, old, new) ==
    [i \in 1..Len(str) |->
        IF str[i] = old /\ \A j \in 1..(i - 1) : str[j] # old THEN new ELSE str[i]]

\* str.replace(old, new) on a string held as the sequence of its characters.
replace(str, old, new) == [i \in 1..Len(str) |-> IF str[i] = old THEN new ELSE str[i]]

\* The file name generate_labels derives from a row (lines 510-511), as the
\* sequence of its characters, the output format being the last one.
out_file_path(name, description, format) ==
    replace(replace(name, "/", "-"), " ", "_") \o <<"+">>
    \o replace(replace(description, " ", "_"), "/", "-") \o <<".", format>>

\* The column holding a pre-rendered icon of the view.
icon_column(view) == IF view = "top" THEN "top_icon" ELSE "side_icon"

\* What the icon block does once the generator is looked up.
icon_found(view, symbol, gen) ==
    Bind(call_generator(gen), LAMBDA icon :
    Bind(IF icon # <<>> THEN sanitize_svg(icon) ELSE [svg |-> <<>>, raised |-> NoException],
         LAMBDA clean :
            [icon |-> icon, stored |-> clean.svg,
             queries |-> << [view |-> view, key |-> symbol, result |-> gen] >>,
             errors |-> <<>>, raised |-> clean.raised]))

\* The icon block of generate_labels for one view (lines 447-464 for the top view,
\* 466-481 for the side view): the fragment handed to the template, the value stored
\* in the row, the lookups made, the failures reported and the exception raised.
icon_block(view, registry, row, symbol) ==
    Bind(row_get(row, icon_column(view)), LAMBDA given :
        IF given = <<>>
        THEN IF symbol # ""
             THEN Bind(dict_get(registry, symbol), LAMBDA gen :
                     IF gen = None
                     THEN [icon |-> <<>>, stored |-> <<>>,
                           queries |-> << [view |-> view, key |-> symbol, result |-> gen] >>,
                           errors |-> << [view |-> view, symbol |-> symbol] >>,
                           raised |-> NoException]
                     ELSE icon_found(view, symbol, gen))
             ELSE [icon |-> <<>>, stored |-> <<>>, queries |-> <<>>, errors |-> <<>>,
                   raised |-> NoException]
        ELSE Bind(sanitize_svg(given), LAMBDA clean :
                [icon |-> SelectSeq(clean.svg, LAMBDA t : t.tag # "?xml"), stored |-> given,
                 queries |-> <<>>, errors |-> <<>>, raised |-> clean.raised]))

\* An icon block that indexes the registry (registry[symbol]) instead of get().
icon_block_index(view, registry, row, symbol) ==
    IF symbol # "" /\ symbol \notin DOMAIN registry /\ row_get(row, icon_column(view)) = <<>>
    THEN [icon |-> <<>>, stored |-> <<>>,
          queries |-> << [view |-> view, key |-> symbol, result |-> None] >>,
          errors |-> <<>>, raised |-> KeyError]
    ELSE icon_block(view, registry, row, symbol)

\* An icon block that looks the symbol up without testing it for emptiness.
icon_block_unguarded(view, registry, row, symbol) ==
    IF symbol = "" /\ row_get(row, icon_column(view)) = <<>>
    THEN [icon |-> <<>>, stored |-> <<>>,
          queries |-> << [view |-> view, key |-> symbol, result |-> dict_get(registry, symbol)] >>,
          errors |-> << [view |-> view, symbol |-> symbol] >>,
          raised |-> NoException]
    ELSE icon_block(view, registry, row, symbol)

generate_icon(view, registry, row, symbol) == icon_block(view, registry, row, symbol)

\* The registry after the lookups of an iteration: dict.get() binds nothing.
registry_with_defaults(registry, view, qs) ==
    [k \in DOMAIN registry \cup {qs[i].key : i \in {j \in 1..Len(qs) : qs[j].view = view}} |->
        IF k \in DOMAIN registry THEN registry[k] ELSE None]

registry_after_lookups(registry, view, qs) == registry

\* A QR block that goes on without a QR code when make_qr_svg raises.
qr_block_forgiving(row, reorder_url, qr_type_arg, response) ==
    Bind(row_get(row, "qr_svg"), LAMBDA given :
        IF given = <<>>
        THEN [make_qr_svg(reorder_url, qr_type_arg, response) EXCEPT !.raised = NoException]
        ELSE Bind(sanitize_svg(given), LAMBDA clean :
                [svg |-> clean.svg, size |-> [width_of |-> clean.svg],
                 raised |-> clean.raised]))

\* The QR block of generate_labels (lines 483-491).
qr_block(row, reorder_url, qr_type_arg, response) ==
    Bind(row_get(row, "qr_svg"), LAMBDA given :
        IF given = <<>>
        THEN make_qr_svg(reorder_url, qr_type_arg, response)
        ELSE Bind(sanitize_svg(given), LAMBDA clean :
                [svg |-> clean.svg, size |-> [width_of |-> clean.svg],
                 raised |-> clean.raised]))

\* The row with the column set, unless the spreadsheet gave the column a value.
row_store(row, column, value) ==
    IF row_get(row, column) = <<>> THEN dict_set(row, column, value) ELSE row

\* The template rendered for a row and sanitized, and the file written
\* (lines 493-533).
render_and_write(row, t, s, q, format) ==
    Bind(sanitize_svg(<< [tag |-> "svg",
                          template |-> [LABEL_WIDTH_MM |-> LABEL_WIDTH_MM,
                                        LABEL_HEIGHT_MM |-> LABEL_HEIGHT_MM,
                                        name |-> row.name, description |-> row.description,
                                        top_icon_svg |-> t.icon, side_icon_svg |-> s.icon,
                                        qr_svg |-> q.svg, qr_size |-> q.size]],
                         [tag |-> "/svg"] >>),
         LAMBDA svg_filled :
            IF svg_filled.raised # NoException
            THEN [row |-> row, files |-> <<>>, queries |-> t.queries \o s.queries,
                  errors |-> t.errors \o s.errors, raised |-> svg_filled.raised]
            ELSE [row |-> dict_set(row, "label", svg_filled.svg),
                  files |-> IF format \in {"svg", "pdf", "png"}
                            THEN << [path |-> out_file_path(row.name, row.description, format),
                                     content |-> svg_filled.svg] >>
                            ELSE <<>>,
                  queries |-> t.queries \o s.queries, errors |-> t.errors \o s.errors,
                  raised |-> NoException])

\* One iteration of the loop of generate_labels over the row `row`: the row as
\* updated, the file written, the lookups, the reported failures and the exception
\* that ended the iteration, if any.
process_row(top, side, row, qr_type_arg, format, response) ==
    Bind(generate_icon("top", top, row, lower(row.top_symbol)), LAMBDA t :
        IF t.raised # NoException
        THEN [row |-> row, files |-> <<>>, queries |-> t.queries, errors |-> t.errors,
              raised |-> t.raised]
        ELSE
    Bind(row_store(row, "top_icon", t.stored), LAMBDA row1 :
    Bind(generate_icon("side", side, row1, lower(row.side_symbol)), LAMBDA s :
        IF s.raised # NoException
        THEN [row |-> row1, files |-> <<>>, queries |-> t.queries \o s.queries,
              errors |-> t.errors \o s.errors, raised |-> s.raised]
        ELSE
    Bind(row_store(row1, "side_icon", s.stored), LAMBDA row2 :
    Bind(qr_block(row2, row.reorder_url, qr_type_arg, response), LAMBDA q :
        IF q.raised # NoException
        THEN [row |-> row2, files |-> <<>>, queries |-> t.queries \o s.queries,
              errors |-> t.errors \o s.errors, raised |-> q.raised]
        ELSE render_and_write(row_store(row2, "qr_svg", q.svg), t, s, q, format))))))

(***************************************************************************)
(* Bounds and input sets                                                   *)
(***************************************************************************)
MaxRows == 2
MaxNames == 2
MaxSides == 5
MaxLobes == 5

\* The rows a spreadsheet may hold, as parse_spreadsheet returns them.
TopSymbols == {"", "Hex", "unobtainium"}
SideSymbols == {"", "washer", "washer_flat"}
PlainPart == [name |-> <<"M", "3">>, description |-> <<"n", "u", "t">>, reorder_url |-> NoUrl]
LinkedPart ==
    [name |-> <<"A", "/", "b">>, description |-> <<"c", " ", "d">>,
     reorder_url |-> <<"https://", "example.com/p">>]
\* A part with no reorder URL under every pair of symbols, and a part with a
\* reorder URL under two of them.
ParsedRows ==
    { [name |-> PlainPart.name, description |-> PlainPart.description, top_symbol |-> t,
       side_symbol |-> sd, reorder_url |-> PlainPart.reorder_url] :
      t \in TopSymbols, sd \in SideSymbols }
    \cup
    { [name |-> LinkedPart.name, description |-> LinkedPart.description,
       top_symbol |-> sym[1], side_symbol |-> sym[2], reorder_url |-> LinkedPart.reorder_url] :
      sym \in { <<"Hex", "washer">>, <<"unobtainium", "">> } }
QrTypes == {"micro", "standard", "nano"}
OutputFormats == {"svg", "pdf", "png"}
ShortUrl == Exact(<<"https://", "v.gd/short">>)
Responses == [shortener : {"ok", "error"}, micro_fits : BOOLEAN, body : {ShortUrl}]
SeqsUpTo(S, n) == UNION { [1..k -> S] : k \in 0..n }

Unused == [shortener |-> "unused", micro_fits |-> FALSE, body |-> Exact(<<>>)]

\* The columns every parser reads.
FiveColumns == <<"name", "description", "top_symbol", "side_symbol", "reorder_url">>
\* A pre-rendered icon held in a cell of the spreadsheet.
PreRendered == << [tag |-> "svg", drawn_by |-> "spreadsheet"], [tag |-> "/svg"] >>
\* Rows of a spreadsheet that has a top_icon column.
OverrideRows ==
    { [name |-> PlainPart.name, description |-> PlainPart.description, top_symbol |-> t,
       side_symbol |-> "", reorder_url |-> PlainPart.reorder_url, top_icon |-> PreRendered] :
      t \in {"Hex", ""} }
\* The CSV file holding the rows under the columns, no cell padded.
csv_file(sheet_rows, columns) ==
    [suffix |-> ".csv",
     records |-> <<columns>> \o
                 [i \in 1..Len(sheet_rows) |->
                    [j \in 1..Len(columns) |-> Exact(sheet_rows[i][columns[j]])]]]
\* Spreadsheets in the other formats, of no row or of one row.
OtherFormats ==
    { [csv_file(rs, FiveColumns) EXCEPT !.suffix = suffix] :
        suffix \in {".tsv", ".xls", ".XLSX", ".ods", ".numbers"},
        rs \in SeqsUpTo({ [name |-> PlainPart.name, description |-> PlainPart.description,
                           top_symbol |-> "Hex", side_symbol |-> "",
                           reorder_url |-> PlainPart.reorder_url] }, 1) }
\* The spreadsheets given to generate_labels: of at most n rows under the five
\* columns, or of one row under the five columns and top_icon.
PartsFiles(n) ==
    { csv_file(rs, FiveColumns) : rs \in SeqsUpTo(ParsedRows, n) }
    \cup { csv_file(<<row>>, FiveColumns \o <<"top_icon">>) : row \in OverrideRows }
    \cup OtherFormats

\* The spreadsheet files read by the parsers: their suffixes, their headers and,
\* for each column, the cells a record may hold under it.
MaxRecords == 1
Suffixes == {".csv", ".CSV", ".tsv", ".xls", ".XLSX", ".ods", ".numbers", ".txt", ""}
Headers ==
    { <<"name", "description">>, <<"name">>, <<"description", "top_symbol">>, FiveColumns,
      <<"name", "description", "quantity">>, <<"description", "name", "top_icon">> }
CellsOf(column) ==
    CASE column = "name" -> {Exact(<<"M", "3">>), Padded(<<"M", "3">>, TRUE, TRUE)}
      [] column = "description" -> {Exact(<<"n", "u", "t">>)}
      [] column = "top_symbol" -> {Exact("Hex"), Padded("hex", FALSE, TRUE)}
      [] column = "side_symbol" -> {Exact("")}
      [] column = "reorder_url" ->
            {Exact(<<>>), Padded(<<"https://", "example.com/p">>, TRUE, FALSE)}
      [] column = "quantity" -> {Exact(<<"1", "2">>)}
      [] column = "top_icon" -> {Exact(PreRendered)}
\* The records with a cell for every column of the header.
RECURSIVE FullRecords(_)
FullRecords(headers) ==
    IF headers = <<>> THEN { <<>> }
    ELSE { <<cell>> \o record : cell \in CellsOf(Head(headers)),
                                record \in FullRecords(Tail(headers)) }
\* The records under a header: with a cell for every column, or one cell short (a
\* blank line when the header has one column).
RecordsUnder(headers) ==
    UNION { { record, SubSeq(record, 1, Len(headers) - 1) } : record \in FullRecords(headers) }
SheetFiles ==
    { [suffix |-> suffix, records |-> <<>>] : suffix \in Suffixes }
    \cup UNION { { [suffix |-> suffix, records |-> <<headers>> \o rs] :
                     suffix \in Suffixes, rs \in SeqsUpTo(RecordsUnder(headers), MaxRecords) } :
                   headers \in Headers }
\* The answers of v.gd to shorten_urls_in_spreadsheet.
SheetResponses ==
    { [shortener |-> "ok", body |-> Padded(<<"https://", "v.gd/short">>, FALSE, TRUE)],
      [shortener |-> "error", body |-> Exact(<<>>)] }

\* The strings given to shorten_url and make_qr_svg, and the answers of v.gd: a
\* body, or one of the exceptions that are a RequestException.
Urls ==
    { <<>>, <<"JUST-A-STRING">>, <<"ftp://", "example.com/p">>, <<"HTTPS://", "example.com/p">>,
      <<" ", "https://", "example.com/p">>, <<"http://", "example.com/p">>,
      <<"https://", "example.com/p">> }
Bodies ==
    { Padded(text, lead, trail) :
        text \in { <<"https://", "v.gd/short">>, <<"http://", "v.gd/short">>, <<"v.gd/short">>,
                   <<"http://", "https://", "v.gd/short">>, <<"https://", "https://", "v.gd/short">>,
                   <<"Error: ", "rate limit">>, <<>> },
        lead \in BOOLEAN, trail \in BOOLEAN }
RequestExceptions == {"ConnectionError", "Timeout", "HTTPError"}
Answers ==
    { [shortener |-> "ok", micro_fits |-> fits, body |-> body] :
        fits \in BOOLEAN, body \in Bodies }
    \cup { [shortener |-> exception, micro_fits |-> fits, body |-> Exact(<<>>)] :
             exception \in RequestExceptions, fits \in BOOLEAN }

\* The runs of shorten_urls.py: the module generator found by the import (the one
\* of this repository, or one that also defines is_url), the flags, and the input
\* file, a spreadsheet under the five columns with at most one record.
GeneratorModules == {generator_names, generator_names \cup {"is_url"}}
Verbosities == 0..3
ScriptFiles ==
    { [suffix |-> suffix, records |-> <<FiveColumns>> \o rs] :
        suffix \in {".csv", ".xls", ".txt"}, rs \in SeqsUpTo(RecordsUnder(FiveColumns), 1) }
Argvs ==
    { [quiet |-> quiet, verbose |-> verbose, input_file |-> file, output_suffix |-> file.suffix] :
        quiet \in BOOLEAN, verbose \in Verbosities, file \in ScriptFiles }

\* The names and descriptions given to out_file_path: the strings of at most
\* MaxChars characters over a letter, the slash, the space and the characters that
\* replace them.
MaxChars == 2
NameChars == {"a", "/", " ", "-", "_"}
Names == SeqsUpTo(NameChars, MaxChars)

\* The calls of the log functions.
LogFunctions == {"debug", "info", "print", "warn", "error"}
Messages == {"Generated", "Parsed", "not found", "failed", ""}
NoKwargs == <<>>
LogKwargs == {NoKwargs, [file |-> "sys.stdout"]}

\* The registrations tried against arbitrary registries.
RegistryNames == {"hex", "HEX", "nut"}
RegistryViews == {"top", "side", "front"}
\* The names registered once the import is over: one bound by the import in
\* another letter case, one that no generator has.
LateNames == {"Hex", "unobtainium"}
Functions == {"f", "g"}

\* The side counts and lobe counts of the model: those whose angles are whole
\* multiples of 3 degrees.
Sides == <<3, 4, 6, 5, 12, 10, 20, 15>>
Lobes == <<2, 6, 12, 3, 5, 20, 10, 15>>
Lengths == {Units(15), Units(30), Units(50)}
Centers == {Units(0), Units(25), Units(50)}
Rotations == {0, 30, 45, -90}
\* The widths and lengths given to bolt_shaft: the shafts of the catalog (20 by 80)
\* and of the tests (25 by 80), and shafts no longer than their tip.
ShaftWidths == {Units(10), Units(20), Units(25), Units(40)}
ShaftLengths == {Units(5), Units(20), Units(40), Units(80)}
\* The head primitives and the sizes given to them, and the screw generators.
HeadPrimitives == {"cap_side", "button_side", "countersunk_side"}
HeadWidths == {Units(30), Units(50), Units(100)}
HeadHeights == {Units(10), Units(20), Units(30), Units(60)}
ScrewSides ==
    {"button_head_side", "cap_head_side", "hex_head_side", "flush_head_side", "wood_screw_side"}

(***************************************************************************)
(* The program: importing shapes.py, then generate_labels                  *)
(***************************************************************************)
Loaded == load_pc = Len(Catalog) + 1

\* The state in which a helper of generator.py is about to be called.
InitCalling(call) ==
    /\ top_generators = EmptyDict
    /\ side_generators = EmptyDict
    /\ raised = NoException
    /\ last_call = [op |-> "none"]
    /\ load_pc = 1
    /\ gl_pc = "idle"
    /\ rows = <<>>
    /\ row_idx = 0
    /\ qr_type = "micro"
    /\ output_format = "png"
    /\ errors = <<>>
    /\ queries = <<>>
    /\ files = <<>>
    /\ responses = <<>>
    /\ geom_call = [fn |-> "none"]
    /\ geom_ret = <<>>
    /\ parts_file = [suffix |-> "", records |-> <<>>]
    /\ LOG_LEVEL = NORMAL
    /\ io_call = call
    /\ io_ret = [fn |-> "none"]

Init == InitCalling([fn |-> "none"])

\* The import of shapes.py applies the next decorator; an exception ends the import.
LoadShapes ==
    /\ load_pc <= Len(Catalog)
    /\ raised = NoException
    /\ LET c == Catalog[load_pc]
           r == icon_generator(top_generators, side_generators, c.which, c.names, c.func)
       IN  /\ top_generators' = r.top
           /\ side_generators' = r.side
           /\ raised' = r.raised
           /\ load_pc' = IF r.raised = NoException THEN load_pc + 1 ELSE load_pc
           /\ last_call' = [op |-> "register", which |-> c.which, names |-> c.names,
                            func |-> c.func]
    /\ UNCHANGED <<label_vars, geom_vars, util_vars>>

\* generate_labels is entered: the template is read and the spreadsheet parsed; an
\* exception of the parser ends the call.
EnterGenerateLabels(file, qt, fmt) ==
    /\ \E parsed \in { parse_spreadsheet(file) } :
          /\ rows' = parsed.rows
          /\ raised' = parsed.raised
          /\ gl_pc' = IF parsed.raised = NoException THEN "running" ELSE "raised"
    /\ parts_file' = file
    /\ qr_type' = qt
    /\ output_format' = fmt
    /\ row_idx' = 0
    /\ last_call' = [op |-> "generate_labels"]
    /\ UNCHANGED <<registry_vars, load_pc, errors, queries, files, responses, geom_vars,
                   util_vars>>

StartGenerateLabels ==
    /\ Loaded
    /\ gl_pc = "idle"
    /\ \E file \in PartsFiles(MaxRows), qt \in QrTypes, fmt \in OutputFormats :
          EnterGenerateLabels(file, qt, fmt)

\* The answers of the shortener and of segno that the row can use.
ResponsesFor(row, qt) ==
    IF qt = "micro" /\ row.reorder_url # NoUrl /\ row_get(row, "qr_svg") = <<>>
    THEN IF startswith(row.reorder_url, "http://") \/ startswith(row.reorder_url, "https://")
         THEN Responses
         ELSE {r \in Responses : r.shortener = "error"}
    ELSE {Unused}

\* One iteration of the loop over the rows.
ProcessRow ==
    /\ gl_pc = "running"
    /\ row_idx < Len(rows)
    /\ \E response \in ResponsesFor(rows[row_idx + 1], qr_type) :
          \E r \in { process_row(top_generators, side_generators, rows[row_idx + 1],
                                 qr_type, output_format, response) } :
              /\ rows' = [rows EXCEPT ![row_idx + 1] = r.row]
              /\ files' = files \o r.files
              /\ queries' = queries \o [i \in 1..Len(r.queries) |->
                                          [row |-> row_idx + 1] @@ r.queries[i]]
              /\ errors' = errors \o [i \in 1..Len(r.errors) |->
                                        [row |-> row_idx + 1] @@ r.errors[i]]
              /\ responses' = Append(responses, response)
              /\ raised' = r.raised
              /\ gl_pc' = IF r.raised = NoException THEN "running" ELSE "raised"
              /\ row_idx' = IF r.raised = NoException THEN row_idx + 1 ELSE row_idx
              /\ top_generators' = registry_after_lookups(top_generators, "top", r.queries)
              /\ side_generators' = registry_after_lookups(side_generators, "side", r.queries)
    /\ last_call' = [op |-> "row"]
    /\ UNCHANGED <<load_pc, qr_type, output_format, parts_file, geom_vars, util_vars>>

\* The loop is over: generate_labels returns the rows.
ReturnRows ==
    /\ gl_pc = "running"
    /\ row_idx = Len(rows)
    /\ gl_pc' = "returned"
    /\ last_call' = [op |-> "return"]
    /\ UNCHANGED <<registry_vars, raised, load_pc, rows, row_idx, qr_type, output_format,
                   errors, queries, files, responses, parts_file, geom_vars, util_vars>>

\* The command was given --export: the rows generate_labels returned are written
\* back to the parts file (lines 617-618).  An exception of write_spreadsheet ends
\* the command and leaves the file as it was.
ExportRows ==
    /\ gl_pc = "returned"
    /\ \E out \in { write_spreadsheet(rows, parts_file.suffix) } :
          /\ raised' = out.raised
          /\ gl_pc' = IF out.raised = NoException THEN "exported" ELSE "export_failed"
          /\ parts_file' = IF out.raised = NoException THEN out.written[1] ELSE parts_file
    /\ last_call' = [op |-> "export"]
    /\ UNCHANGED <<registry_vars, load_pc, rows, row_idx, qr_type, output_format, errors,
                   queries, files, responses, geom_vars, util_vars>>

Next == LoadShapes \/ StartGenerateLabels \/ ProcessRow \/ ReturnRows \/ ExportRows

Spec == Init /\ [][Next]_vars

(***************************************************************************)
(* Registrations and lookups against arbitrary registries                  *)
(***************************************************************************)
RegistryInit == Init

\* @icon_generator(which, names) is applied to the function func.
ApplyIconGenerator(which, names, func) ==
    /\ LET r == icon_generator(top_generators, side_generators, which, names, func)
       IN  /\ top_generators' = r.top
           /\ side_generators' = r.side
           /\ raised' = r.raised
    /\ last_call' = [op |-> "register", which |-> which, names |-> names, func |-> func]
    /\ UNCHANGED <<load_pc, label_vars, geom_vars, util_vars>>

\* A registration against registries that the import has not filled.
Register ==
    /\ load_pc = 1
    /\ \E which \in RegistryViews, func \in Functions,
          names \in SeqsUpTo(RegistryNames, MaxNames) \ {<<>>} :
          ApplyIconGenerator(which, names, func)

\* A symbol is looked up the way generate_labels does: lower-cased, then get().
Lookup ==
    /\ \E which \in {"top", "side"}, symbol \in RegistryNames \cup {"unobtainium"} :
          LET registry == IF which = "top" THEN top_generators ELSE side_generators
          IN  last_call' = [op |-> "lookup", which |-> which, symbol |-> symbol,
                            result |-> dict_get(registry, lower(symbol))]
    /\ raised' = NoException
    /\ UNCHANGED <<registry_vars, load_pc, label_vars, geom_vars, util_vars>>

RegistryNext == Register \/ Lookup

RegistrySpec == RegistryInit /\ [][RegistryNext]_vars

(***************************************************************************)
(* The program with registrations after the import                         *)
(***************************************************************************)
LibraryInit == Init

\* icon_generator is applied again once shapes.py is imported.
RegisterAfterLoad ==
    /\ Loaded
    /\ \E which \in RegistryViews, name \in LateNames :
          ApplyIconGenerator(which, <<name>>, "f")

\* generate_labels is entered with a spreadsheet of at most one row.
StartOneRow ==
    /\ Loaded
    /\ gl_pc = "idle"
    /\ \E file \in PartsFiles(1), qt \in QrTypes, fmt \in OutputFormats :
          EnterGenerateLabels(file, qt, fmt)

LibraryNext == LoadShapes \/ RegisterAfterLoad \/ StartOneRow \/ ProcessRow \/ ReturnRows

LibrarySpec == LibraryInit /\ [][LibraryNext]_vars

(***************************************************************************)
(* The geometry helpers on bounded inputs                                  *)
(***************************************************************************)
GeometryInit == Init

CallPolygonPoints ==
    /\ \E i \in 1..MaxSides, f \in Lengths, cx \in Centers, cy \in Centers, rot \in Rotations :
          /\ geom_call' = [fn |-> "polygon_points", n |-> Sides[i], flat_to_flat |-> f,
                           cx |-> cx, cy |-> cy, rotation_deg |-> rot]
          /\ geom_ret' = polygon_points(Sides[i], f, cx, cy, rot)
    /\ UNCHANGED <<registry_vars, raised, last_call, load_pc, label_vars, util_vars>>

CallStar ==
    /\ \E i \in 1..MaxLobes, outer \in Lengths, inner \in Lengths :
          /\ geom_call' = [fn |-> "star", lobes |-> Lobes[i], outer_radius |-> outer,
                           inner_radius |-> inner]
          /\ geom_ret' = star(Lobes[i], outer, inner)
    /\ UNCHANGED <<registry_vars, raised, last_call, load_pc, label_vars, util_vars>>

CallBoltShaft ==
    /\ \E w \in ShaftWidths, l \in ShaftLengths, pointed \in BOOLEAN :
          /\ geom_call' = [fn |-> "bolt_shaft", shaft_width |-> w, shaft_length |-> l,
                           pointed |-> pointed]
          /\ geom_ret' = bolt_shaft(w, l, pointed)
    /\ UNCHANGED <<registry_vars, raised, last_call, load_pc, label_vars, util_vars>>

\* One of the three head primitives is called.
CallHeadSide ==
    /\ \E fn \in HeadPrimitives, w \in HeadWidths, h \in HeadHeights :
          /\ geom_call' = [fn |-> fn, head_width |-> w, head_height |-> h]
          /\ geom_ret' = CASE fn = "cap_side" -> cap_side(w, h)
                           [] fn = "button_side" -> button_side(w, h)
                           [] fn = "countersunk_side" -> countersunk_side(w, h)
    /\ UNCHANGED <<registry_vars, raised, last_call, load_pc, label_vars, util_vars>>

\* One of the five screw generators of the side view is called.
CallScrewSide ==
    /\ \E func \in ScrewSides :
          /\ geom_call' = [fn |-> "screw_side", func |-> func]
          /\ geom_ret' = call_generator(func)
    /\ UNCHANGED <<registry_vars, raised, last_call, load_pc, label_vars, util_vars>>

GeometryNext ==
    CallPolygonPoints \/ CallStar \/ CallBoltShaft \/ CallHeadSide \/ CallScrewSide

GeometrySpec == GeometryInit /\ [][GeometryNext]_vars

(***************************************************************************)
(* The spreadsheet functions on bounded files                              *)
(***************************************************************************)
SheetInit ==
    \/ \E file \in SheetFiles, delimiter \in {",", "\t"} :
          InitCalling([fn |-> "parse_csv", file |-> file, delimiter |-> delimiter])
    \/ \E file \in SheetFiles :
          InitCalling([fn |-> "parse_spreadsheet", file |-> file])
    \/ \E file \in SheetFiles, is_url \in BOOLEAN, response \in SheetResponses :
          InitCalling([fn |-> "shorten_urls_in_spreadsheet", file |-> file,
                       output_suffix |-> file.suffix, is_url |-> is_url,
                       response |-> response])

CallParseCsv ==
    /\ io_call.fn = "parse_csv"
    /\ io_ret.fn = "none"
    /\ io_ret' = [fn |-> "parse_csv"] @@ parse_csv(io_call.file, io_call.delimiter)
    /\ UNCHANGED <<registry_vars, raised, last_call, load_pc, label_vars, geom_vars,
                   LOG_LEVEL, io_call>>

CallParseSpreadsheet ==
    /\ io_call.fn = "parse_spreadsheet"
    /\ io_ret.fn = "none"
    /\ io_ret' = [fn |-> "parse_spreadsheet"] @@ parse_spreadsheet(io_call.file)
    /\ UNCHANGED <<registry_vars, raised, last_call, load_pc, label_vars, geom_vars,
                   LOG_LEVEL, io_call>>

\* shorten_urls_in_spreadsheet is called to update the input file.
CallShortenUrlsInSpreadsheet ==
    /\ io_call.fn = "shorten_urls_in_spreadsheet"
    /\ io_ret.fn = "none"
    /\ io_ret' = [fn |-> "shorten_urls_in_spreadsheet"] @@
                    shorten_urls_in_spreadsheet(io_call.file, io_call.output_suffix,
                                                io_call.is_url, io_call.response)
    /\ UNCHANGED <<registry_vars, raised, last_call, load_pc, label_vars, geom_vars,
                   LOG_LEVEL, io_call>>

SheetNext == CallParseCsv \/ CallParseSpreadsheet \/ CallShortenUrlsInSpreadsheet

SheetSpec == SheetInit /\ [][SheetNext]_vars

(***************************************************************************)
(* shorten_url and make_qr_svg on bounded strings and answers              *)
(***************************************************************************)
QrInit ==
    \/ \E url \in Urls, response \in { a \in Answers : a.micro_fits } :
          InitCalling([fn |-> "shorten_url", url |-> url, response |-> response])
    \/ \E content \in Urls, qt \in QrTypes, response \in Answers :
          InitCalling([fn |-> "make_qr_svg", content |-> content, qr_type |-> qt,
                       response |-> response])

CallShortenUrl ==
    /\ io_call.fn = "shorten_url"
    /\ io_ret.fn = "none"
    /\ io_ret' = [fn |-> "shorten_url"] @@ shorten_url(io_call.url, io_call.response)
    /\ UNCHANGED <<registry_vars, raised, last_call, load_pc, label_vars, geom_vars,
                   LOG_LEVEL, io_call>>

CallMakeQrSvg ==
    /\ io_call.fn = "make_qr_svg"
    /\ io_ret.fn = "none"
    /\ io_ret' = [fn |-> "make_qr_svg"] @@
                    make_qr_svg(io_call.content, io_call.qr_type, io_call.response)
    /\ UNCHANGED <<registry_vars, raised, last_call, load_pc, label_vars, geom_vars,
                   LOG_LEVEL, io_call>>

QrNext == CallShortenUrl \/ CallMakeQrSvg

QrSpec == QrInit /\ [][QrNext]_vars

(***************************************************************************)
(* The output file name on bounded names and descriptions                  *)
(***************************************************************************)
NameInit ==
    \E name \in Names, description \in Names, format \in OutputFormats :
        InitCalling([fn |-> "out_file_path", name |-> name, description |-> description,
                     format |-> format])

CallOutFilePath ==
    /\ io_call.fn = "out_file_path"
    /\ io_ret.fn = "none"
    /\ io_ret' = [fn |-> "out_file_path",
                  path |-> out_file_path(io_call.name, io_call.description, io_call.format)]
    /\ UNCHANGED <<registry_vars, raised, last_call, load_pc, label_vars, geom_vars,
                   LOG_LEVEL, io_call>>

NameNext == CallOutFilePath

NameSpec == NameInit /\ [][NameNext]_vars

(***************************************************************************)
(* The log functions under every log level                                 *)
(***************************************************************************)
LogInit == Init

\* generator.LOG_LEVEL is assigned one of the levels of LogLevel.
SetLogLevel ==
    /\ \E level \in LogLevel : LOG_LEVEL' = level
    /\ io_call' = [fn |-> "none"]
    /\ io_ret' = [fn |-> "none"]
    /\ UNCHANGED <<registry_vars, raised, last_call, load_pc, label_vars, geom_vars>>

\* One of the log functions is called.
CallLog ==
    /\ \E fn \in LogFunctions, msg \in Messages, kwargs \in LogKwargs :
          /\ fn # "error" => kwargs = NoKwargs
          /\ io_call' = [fn |-> fn, msg |-> msg, kwargs |-> kwargs]
          /\ io_ret' = [fn |-> fn, printed |-> log_call(fn, LOG_LEVEL, msg, kwargs)]
    /\ UNCHANGED <<registry_vars, raised, last_call, load_pc, label_vars, geom_vars,
                   LOG_LEVEL>>

LogNext == SetLogLevel \/ CallLog

LogSpec == LogInit /\ [][LogNext]_vars

(***************************************************************************)
(* The command shorten_urls.py under every combination of its flags        *)
(***************************************************************************)
ScriptInit ==
    \E module \in GeneratorModules, argv \in Argvs, exists \in BOOLEAN, is_url \in BOOLEAN,
       response \in SheetResponses :
        InitCalling([fn |-> "shorten_urls.py", generator |-> module, argv |-> argv,
                     exists |-> exists, is_url |-> is_url, response |-> response])

\* One run of the command, from the load of the module to its exit.  generator.py
\* is loaded by the import, which leaves its LOG_LEVEL at NORMAL.
RunShortenUrls ==
    /\ io_call.fn = "shorten_urls.py"
    /\ io_ret.fn = "none"
    /\ io_ret' = run_shorten_urls(io_call.generator, LOG_LEVEL, io_call.argv, io_call.exists,
                                  io_call.is_url, io_call.response)
    /\ UNCHANGED <<registry_vars, raised, last_call, load_pc, label_vars, geom_vars,
                   LOG_LEVEL, io_call>>

ScriptNext == RunShortenUrls

ScriptSpec == ScriptInit /\ [][ScriptNext]_vars

(***************************************************************************)
(* Properties                                                              *)
(***************************************************************************)
Views == {"top", "side"}

RegistryOf(view) == IF view = "top" THEN top_generators ELSE side_generators

\* The symbol a row gives for a view, as written in the spreadsheet.
SymbolOf(row, view) == IF view = "top" THEN row.top_symbol ELSE row.side_symbol

\* Names that differ by letter case only, written out without str.lower().
CaseGroups ==
    { {"hex", "Hex", "HEX"}, {"nut", "Nut", "NUT"}, {"washer", "Washer"},
      {"washer_std", "WASHER_STD"}, {"washer_flat", "Washer_Flat"} }

SameKey(a, b) == a = b \/ \E g \in CaseGroups : a \in g /\ b \in g

\* The rows whose iteration is over.
Done == 1..row_idx

ErrorsOf(i, view) == { k \in 1..Len(errors) : errors[k].row = i /\ errors[k].view = view }

QueriesOf(i, view) == { k \in 1..Len(queries) : queries[k].row = i /\ queries[k].view = view }

Unregistered(sym, view) == sym # "" /\ \A k \in DOMAIN RegistryOf(view) : ~SameKey(sym, k)

\* The columns parse_spreadsheet gives a row.
InputOf(row) ==
    [name |-> row.name, description |-> row.description, top_symbol |-> row.top_symbol,
     side_symbol |-> row.side_symbol, reorder_url |-> row.reorder_url]

\* C1: a registration that names a key already bound in the registry of its view,
\* or names one key twice, whatever the letter case, raises ValueError when the
\* decorator is applied, and a registration of fresh keys does not; a lookup never
\* raises and leaves the registries as they are.
C1_DuplicateRaisesAtRegistration ==
    [][ /\ (last_call'.op = "register" /\ last_call'.which \in Views) =>
              LET reg == RegistryOf(last_call'.which)
                  names == last_call'.names
                  dup == \E i \in 1..Len(names) :
                            \/ \E k \in DOMAIN reg : SameKey(names[i], k)
                            \/ \E j \in 1..(i - 1) : SameKey(names[j], names[i])
              IN  dup <=> (raised' = AlreadyRegistered)
        /\ last_call'.op = "lookup" =>
              raised' = NoException /\ UNCHANGED registry_vars ]_vars

\* A registration of "HEX" in a top registry that binds "hex" has raised.
C1_Witness ==
    /\ last_call.op = "register"
    /\ last_call.which = "top"
    /\ last_call.names = <<"HEX">>
    /\ "hex" \in DOMAIN top_generators
    /\ raised = AlreadyRegistered

\* C2: a finished row whose symbol for a view is non-empty and not registered has
\* an empty icon for the view in its row and in its label, and exactly one reported
\* failure for the view; generate_labels is ended by an exception only for a QR type
\* it does not know; and every finished row is what processing it alone gives.
C2_UnregisteredSymbol ==
    /\ \A i \in Done : \A view \in Views :
          Unregistered(SymbolOf(rows[i], view), view) =>
              /\ rows[i][icon_column(view)] = <<>>
              /\ rows[i].label[1].template[IF view = "top" THEN "top_icon_svg"
                                           ELSE "side_icon_svg"] = <<>>
              /\ Cardinality(ErrorsOf(i, view)) = 1
    /\ gl_pc = "raised" =>
          /\ raised = InvalidQrType
          /\ qr_type \notin {"micro", "standard"}
          /\ rows[row_idx + 1].reorder_url # NoUrl
    /\ \A i \in Done :
          rows[i] = process_row(top_generators, side_generators, InputOf(rows[i]),
                                qr_type, output_format, responses[i]).row

\* A row with the unregistered top symbol "unobtainium" is finished, and so is the
\* row after it, whose top symbol is registered.
C2_Witness ==
    /\ gl_pc = "returned"
    /\ Len(rows) = 2
    /\ rows[1].top_symbol = "unobtainium"
    /\ Cardinality(ErrorsOf(1, "top")) = 1
    /\ rows[1].top_icon = <<>>
    /\ rows[2].top_symbol = "Hex"
    /\ rows[2].top_icon # <<>>
    /\ ErrorsOf(2, "top") = {}

\* C3: a finished row whose symbol for a view is empty has an empty icon for the
\* view, no reported failure for it and no lookup in the registry of the view.
C3_EmptySymbol ==
    \A i \in Done : \A view \in Views :
        SymbolOf(rows[i], view) = "" =>
            /\ rows[i][icon_column(view)] = <<>>
            /\ ErrorsOf(i, view) = {}
            /\ QueriesOf(i, view) = {}

\* A row with no side symbol and an unregistered top symbol is finished: the top
\* view was looked up and reported, the side view was not.
C3_Witness ==
    /\ row_idx >= 1
    /\ rows[1].side_symbol = ""
    /\ rows[1].top_symbol = "unobtainium"
    /\ rows[1].side_icon = <<>>
    /\ QueriesOf(1, "side") = {}
    /\ Cardinality(QueriesOf(1, "top")) = 1
    /\ Cardinality(ErrorsOf(1, "top")) = 1

\* The registry of a view as the decorators of shapes.py, taken together, bind it:
\* each name of each decorator of the view, bound to the decorated function.
CatalogOf(view) == { Catalog[j] : j \in { i \in 1..Len(Catalog) : Catalog[i].which = view } }

NamesOf(entry) == { entry.names[i] : i \in 1..Len(entry.names) }

ImportedRegistry(view) ==
    [k \in UNION { NamesOf(c) : c \in CatalogOf(view) } |->
        (CHOOSE c \in CatalogOf(view) : k \in NamesOf(c)).func]

ImportedTop == ImportedRegistry("top")

ImportedSide == ImportedRegistry("side")

\* C4: a lookup made for a row resolves to the generator bound to the key that the
\* row's symbol spells in any letter case; two lookups of one key in one view give
\* the same generator; and once symbols were looked up the registries are still as
\* the import left them.
C4_LookupCaseInsensitive ==
    /\ \A k \in 1..Len(queries) :
          LET q == queries[k]
              sym == SymbolOf(rows[q.row], q.view)
          IN  /\ \A key \in DOMAIN RegistryOf(q.view) :
                    SameKey(sym, key) => q.result = RegistryOf(q.view)[key]
              /\ \A j \in 1..Len(queries) :
                    (queries[j].view = q.view /\
                     SameKey(SymbolOf(rows[queries[j].row], q.view), sym))
                        => queries[j].result = q.result
    /\ queries # <<>> =>
          top_generators = ImportedTop /\ side_generators = ImportedSide

\* Two rows that spell the registered key "hex" as "Hex" are finished, both
\* resolved to head_hex_top.
C4_Witness ==
    /\ row_idx = 2
    /\ rows[1].top_symbol = "Hex"
    /\ rows[2].top_symbol = "Hex"
    /\ "hex" \in DOMAIN top_generators
    /\ \A i \in 1..2 : \E k \in QueriesOf(i, "top") :
          queries[k].result = top_generators["hex"] /\ queries[k].result # None

\* The generators bound in the registry of a view.
GeneratorsOf(view) == { RegistryOf(view)[k] : k \in DOMAIN RegistryOf(view) }

Drawable == {"rect", "circle", "ellipse", "polygon", "path", "line"}

\* The fragment is not empty, opens an svg element that has a viewBox, closes it
\* and holds a drawable element.
WellFormedIcon(out) ==
    /\ out # <<>>
    /\ \E i \in 1..Len(out) : out[i].tag = "svg" /\ "viewBox" \in DOMAIN out[i]
    /\ \E i \in 1..Len(out) : out[i].tag = "/svg"
    /\ \E i \in 1..Len(out) : out[i].tag \in Drawable

\* The generators whose viewBox starts at x = 5.
ShiftedGenerators == {"nut_lock_side", "nut_wing_side"}

\* The statement of C5 as the specification gives it: once shapes.py is imported,
\* "washer" and "washer_flat" are both bound in the side registry, to one generator,
\* and give the same output.
C5_WasherFlatIsSynonym ==
    Loaded =>
        /\ "washer" \in DOMAIN side_generators
        /\ "washer_flat" \in DOMAIN side_generators
        /\ side_generators["washer"] = side_generators["washer_flat"]
        /\ call_generator(side_generators["washer"])
              = call_generator(side_generators["washer_flat"])

\* C5: once shapes.py is imported, the side registry binds "washer" and "washer_std"
\* to one generator, washer_std_side, so the two give the same output; "washer_flat"
\* is bound in neither registry, and a finished row that asks for the side view of
\* "washer_flat" has an empty side icon and one reported failure, while a row that
\* asks for "washer" has the output of washer_std_side.
C5_WasherStdIsSynonym ==
    /\ Loaded =>
          /\ {"washer", "washer_std"} \subseteq DOMAIN side_generators
          /\ side_generators["washer"] = "washer_std_side"
          /\ side_generators["washer_std"] = "washer_std_side"
          /\ "washer_flat" \notin DOMAIN side_generators \cup DOMAIN top_generators
    /\ last_call.op = "register" /\ {"washer", "washer_std"} \subseteq DOMAIN side_generators =>
          call_generator(side_generators["washer"])
              = call_generator(side_generators["washer_std"])
    /\ \A i \in Done :
          /\ rows[i].side_symbol = "washer_flat" =>
                rows[i].side_icon = <<>> /\ Cardinality(ErrorsOf(i, "side")) = 1
          /\ rows[i].side_symbol = "washer" =>
                /\ rows[i].side_icon = sanitize_svg(washer_std_side(Units(80), Units(35))).svg
                /\ ErrorsOf(i, "side") = {}

\* A row that asks for "washer" and a row that asks for "washer_flat" are finished:
\* the first has a side icon, the second has none.
C5_Witness ==
    /\ row_idx = 2
    /\ rows[1].side_symbol = "washer"
    /\ rows[2].side_symbol = "washer_flat"
    /\ rows[1].side_icon # <<>>
    /\ rows[2].side_icon = <<>>
    /\ side_generators["washer"] = side_generators["washer_std"]

C7_GeneratorsReturnSvg ==
    last_call.op = "register" =>
        \A view \in Views : \A gen \in GeneratorsOf(view) :
            \A out \in {call_generator(gen)} : WellFormedIcon(out)

\* The import is over, with 64 top keys and 54 side keys, and the generator of
\* "hex" returns a polygon inside an svg element.
C7_Witness ==
    /\ Loaded
    /\ last_call.op = "register"
    /\ Cardinality(DOMAIN top_generators) = 64
    /\ Cardinality(DOMAIN side_generators) = 54
    /\ \E i \in 1..Len(call_generator(top_generators["hex"])) :
          call_generator(top_generators["hex"])[i].tag = "polygon"

\* The statement of C8 as the specification gives it: every registered generator
\* returns an svg element of width 100, height 100 and viewBox "0 0 100 100".
C8_SameFrame ==
    last_call.op = "register" =>
        \A view \in Views : \A gen \in GeneratorsOf(view) :
            \A out \in {call_generator(gen)} :
                /\ out[1].tag = "svg"
                /\ out[1].width = 100
                /\ out[1].height = 100
                /\ out[1].viewBox = Frame

\* C8: every registered generator returns an svg element of width 100 and height
\* 100 whose viewBox is 100 by 100; the viewBox is "0 0 100 100", except for
\* nut_lock_side and nut_wing_side, where it is "5 0 100 100".
C8_FrameShiftedForTwo ==
    last_call.op = "register" =>
        \A view \in Views : \A gen \in GeneratorsOf(view) :
            \A out \in {call_generator(gen)} :
                /\ out[1].tag = "svg"
                /\ out[1].width = 100
                /\ out[1].height = 100
                /\ out[1].viewBox = IF gen \in ShiftedGenerators THEN ShiftedFrame ELSE Frame

\* The import is over; the generator of the side key "nyloc" returns the viewBox
\* "5 0 100 100" and the generator of the side key "hex" the viewBox "0 0 100 100".
C8_Witness ==
    /\ Loaded
    /\ last_call.op = "register"
    /\ side_generators["nyloc"] = "nut_lock_side"
    /\ call_generator(side_generators["nyloc"])[1].viewBox = <<5, 0, 100, 100>>
    /\ call_generator(side_generators["hex"])[1].viewBox = <<0, 0, 100, 100>>

Abs(x) == IF x < 0 THEN -x ELSE x

\* A formatted coordinate, in hundredths, is the 2-decimal formatting of the value
\* center + radius * cos, the value in thousandths and the cosine in ten-thousandths.
FormatsPoint(coordinate, center, radius, cosine) ==
    Abs(coordinate * 10 - (center + (radius * cosine) \div 10000)) <= 10

\* C9: polygon_points(n, f, cx, cy, rotation) returns n pairs; with R the radius
\* for which 2 * R * cos(pi / n) is f, pair i is the 2-decimal formatting of the
\* point at angle rotation + i * 360 / n on the circle of radius R around (cx, cy),
\* so its squared distance from the center is R * R up to the rounding.
C9_PolygonPointsOnCircle ==
    geom_call.fn = "polygon_points" =>
        LET n == geom_call.n
            f == geom_call.flat_to_flat
            R == circumradius(n, f)
        IN  /\ Len(geom_ret) = n
            /\ Abs(2 * R * cos_deg(180 \div n) - f * 10000) <= cos_deg(180 \div n)
            /\ \A k \in 1..n :
                  LET angle_deg == geom_call.rotation_deg + (k - 1) * (360 \div n)
                      dx == geom_ret[k][1] - geom_call.cx \div 10
                      dy == geom_ret[k][2] - geom_call.cy \div 10
                  IN  /\ FormatsPoint(geom_ret[k][1], geom_call.cx, R, cos_deg(angle_deg))
                      /\ FormatsPoint(geom_ret[k][2], geom_call.cy, R, sin_deg(angle_deg))
                      /\ Abs(dx * dx + dy * dy - (R \div 10) * (R \div 10))
                            <= 4 * (R \div 10) + 4

\* polygon_points(6, 50) has returned its six pairs, the first "78.87,50.00" and
\* the second "64.43,75.00": points at radius 28.87 from (50, 50).
C9_Witness ==
    /\ geom_call = [fn |-> "polygon_points", n |-> 6, flat_to_flat |-> Units(50),
                    cx |-> Units(50), cy |-> Units(50), rotation_deg |-> 0]
    /\ Len(geom_ret) = 6
    /\ geom_ret[1] = <<7887, 5000>>
    /\ geom_ret[2] = <<6443, 7500>>

\* C10: star(lobes, outer, inner) returns a path that starts with M and ends with
\* Z and has 2 * lobes vertices between them; vertex i is the 2-decimal formatting
\* of the point at angle i * 360 / (2 * lobes) - 90 degrees on the circle around
\* (50, 50) of radius outer for even i and inner for odd i; vertex 0 is straight
\* above the center, at (50, 50 - outer).
C10_StarAlternates ==
    geom_call.fn = "star" =>
        LET lobes == geom_call.lobes
            outer == geom_call.outer_radius
            inner == geom_call.inner_radius
        IN  /\ Len(geom_ret) = 2 * lobes + 1
            /\ geom_ret[1].cmd = "M"
            /\ geom_ret[2 * lobes + 1] = [cmd |-> "Z"]
            /\ \A k \in 2..(2 * lobes) : geom_ret[k].cmd \in {"L", ""}
            /\ geom_ret[1].x = 5000
            /\ geom_ret[1].y = 5000 - outer \div 10
            /\ \A k \in 1..(2 * lobes) :
                  LET i == k - 1
                      r == IF i % 2 = 0 THEN outer ELSE inner
                      angle_deg == i * (360 \div (2 * lobes)) - 90
                  IN  /\ FormatsPoint(geom_ret[k].x, Units(50), r, cos_deg(angle_deg))
                      /\ FormatsPoint(geom_ret[k].y, Units(50), r, sin_deg(angle_deg))

\* star(6, 50, 30) has returned 'M 50.00 0.00 L 65.00 24.02 93.30 25.00 ... Z':
\* twelve vertices, then Z.
C10_Witness ==
    /\ geom_call = [fn |-> "star", lobes |-> 6, outer_radius |-> Units(50),
                    inner_radius |-> Units(30)]
    /\ Len(geom_ret) = 13
    /\ geom_ret[1] = [cmd |-> "M", x |-> 5000, y |-> 0]
    /\ geom_ret[2] = [cmd |-> "L", x |-> 6500, y |-> 2402]
    /\ geom_ret[3] = [cmd |-> "", x |-> 9330, y |-> 2500]
    /\ geom_ret[13] = [cmd |-> "Z"]

(***************************************************************************)
(* The spreadsheet given to generate_labels                                *)
(***************************************************************************)
\* The cell of the i-th data record of the file under the column, if the file has
\* the column and the cell holds more than white space.
HasOverride(file, i, column) ==
    /\ file.records # <<>>
    /\ column \in columns_of(file.records[1])
    /\ i \in 1..Len(data_records(file))
    /\ DictReader(file.records[1], data_records(file)[i])[column].kind = "str"
    /\ strip(DictReader(file.records[1], data_records(file)[i])[column]) # <<>>

OverrideOf(file, i, column) ==
    strip(DictReader(file.records[1], data_records(file)[i])[column])

\* C11: a part row parsed from a spreadsheet that has a top_icon column carries the
\* pre-rendered icon of its record, and generate_labels uses a non-empty one in
\* place of generating the icon: the row keeps it, the template is handed it, and
\* the top registry is not looked up for the row.
C11_OverrideCarriedAndUsed ==
    gl_pc \in {"running", "returned"} =>
        \A i \in 1..Len(rows) :
            HasOverride(parts_file, i, "top_icon") =>
                /\ "top_icon" \in DOMAIN rows[i]
                /\ rows[i].top_icon = OverrideOf(parts_file, i, "top_icon")
                /\ i \in Done =>
                      /\ QueriesOf(i, "top") = {}
                      /\ rows[i].label[1].template.top_icon_svg =
                            sanitize_svg(OverrideOf(parts_file, i, "top_icon")).svg

(***************************************************************************)
(* The output files of a run                                               *)
(***************************************************************************)
\* The files in output_dir once the writes are done: a write to a path that exists
\* replaces the file.
WrittenPaths == { files[k].path : k \in 1..Len(files) }

\* The content of the file at the path: what the last write to the path wrote.
FileAt(path) ==
    files[CHOOSE k \in 1..Len(files) :
             files[k].path = path /\ \A j \in (k + 1)..Len(files) : files[j].path # path].content

\* C12: a run of generate_labels that returns has written one output file per row,
\* N distinct files for N rows, and no label is overwritten by the label of another
\* row: the file of every row holds the label of that row.
C12_OneFilePerRow ==
    gl_pc = "returned" =>
        /\ Cardinality(WrittenPaths) = Len(rows)
        /\ \A i \in 1..Len(rows) :
              /\ out_file_path(rows[i].name, rows[i].description, output_format) \in WrittenPaths
              /\ FileAt(out_file_path(rows[i].name, rows[i].description, output_format)) =
                    rows[i].label

(***************************************************************************)
(* shorten_urls_in_spreadsheet                                             *)
(***************************************************************************)
\* The columns that the i-th data record of the file has a cell for, and the cell
\* under a column.
ColumnsOf(file, i) ==
    { file.records[1][j] :
        j \in { k \in 1..Len(file.records[1]) : k <= Len(file.records[i + 1]) } }

CellOf(file, i, column) == DictReader(file.records[1], file.records[i + 1])[column]

\* C13: shorten_urls_in_spreadsheet preserves all other data: every column of every
\* record of the input file is in the file written, with the same value, and only
\* short_url is added or updated.
C13_OtherDataPreserved ==
    (io_ret.fn = "shorten_urls_in_spreadsheet" /\ io_ret.raised = NoException) =>
        /\ Len(io_ret.written) = 1
        /\ Len(io_ret.written[1].records) = Len(io_call.file.records)
        /\ \A i \in 1..(Len(io_call.file.records) - 1) :
              \A column \in ColumnsOf(io_call.file, i) \ {"short_url"} :
                  /\ column \in ColumnsOf(io_ret.written[1], i)
                  /\ CellOf(io_ret.written[1], i, column) = CellOf(io_call.file, i, column)

(***************************************************************************)
(* shorten_url                                                             *)
(***************************************************************************)
SchemePrefixes == {"http://", "https://"}

HasScheme(text) == text # <<>> /\ text[1] \in SchemePrefixes

\* C14: shorten_url returns its input unchanged whenever it obtains no short URL: a
\* string that starts with neither http:// nor https:// is returned without any
\* request, and when the request raises a RequestException the URL is returned
\* with its scheme and the exception is not propagated.
C14_InputReturnedWithoutShortUrl ==
    io_ret.fn = "shorten_url" =>
        /\ ~HasScheme(io_call.url) =>
              /\ io_ret.value = io_call.url
              /\ io_ret.requests = <<>>
              /\ io_ret.raised = NoException
        /\ (HasScheme(io_call.url) /\ io_call.response.shortener \in RequestExceptions) =>
              /\ io_ret.value = io_call.url
              /\ HasScheme(io_ret.value)
              /\ io_ret.raised = NoException

\* The request for an https URL timed out and the URL came back.
C14_Witness ==
    /\ io_ret.fn = "shorten_url"
    /\ io_call.url = <<"https://", "example.com/p">>
    /\ io_call.response.shortener = "Timeout"
    /\ io_ret.requests # <<>>
    /\ io_ret.value = <<"https://", "example.com/p">>

\* The request was made and answered.
Shortened ==
    /\ io_ret.fn = "shorten_url"
    /\ HasScheme(io_call.url)
    /\ io_call.response.shortener = "ok"

\* C15 as stated: a successful shortening returns the stripped body with one
\* leading scheme prefix removed, and the result never starts with http:// or
\* https://.
C15_ResultNeverHasScheme ==
    Shortened =>
        /\ io_ret.value = IF HasScheme(io_call.response.body.text)
                          THEN Tail(io_call.response.body.text)
                          ELSE io_call.response.body.text
        /\ ~HasScheme(io_ret.value)

\* C15, amended: a successful shortening returns the stripped body with its first
\* scheme prefix removed if it starts with one, and as it is otherwise; the result
\* starts with a scheme prefix exactly when the body starts with two.
C15_OnePrefixRemoved ==
    Shortened =>
        /\ io_ret.value = IF HasScheme(io_call.response.body.text)
                          THEN Tail(io_call.response.body.text)
                          ELSE io_call.response.body.text
        /\ HasScheme(io_ret.value) <=>
              /\ Len(io_call.response.body.text) >= 2
              /\ io_call.response.body.text[1] \in SchemePrefixes
              /\ io_call.response.body.text[2] \in SchemePrefixes
        /\ io_ret.raised = NoException

\* The body " https://v.gd/short " came back as "v.gd/short".
C15_Witness ==
    /\ Shortened
    /\ io_call.response.body = Padded(<<"https://", "v.gd/short">>, TRUE, TRUE)
    /\ io_ret.value = <<"v.gd/short">>

(***************************************************************************)
(* make_qr_svg                                                             *)
(***************************************************************************)
\* C16 as stated: make_qr_svg raises ValueError whenever qr_type is neither
\* "micro" nor "standard", for every content string, before any URL is shortened
\* or any QR code is made.
C16_InvalidTypeAlwaysRaises ==
    (io_ret.fn = "make_qr_svg" /\ io_call.qr_type \notin {"micro", "standard"}) =>
        /\ io_ret.raised = InvalidQrType
        /\ io_ret.requests = <<>>
        /\ io_ret.segno = <<>>

\* C16, amended: for every content string but the empty one, make_qr_svg raises
\* ValueError when qr_type is neither "micro" nor "standard", before any URL is
\* shortened or any QR code is made; for the empty content it returns the empty
\* fragment and the size 0 whatever qr_type is, also without a request or a QR code.
C16_InvalidTypeRaisesForContent ==
    (io_ret.fn = "make_qr_svg" /\ io_call.qr_type \notin {"micro", "standard"}) =>
        /\ io_ret.requests = <<>>
        /\ io_ret.segno = <<>>
        /\ io_call.content # <<>> => io_ret.raised = InvalidQrType
        /\ io_call.content = <<>> =>
              /\ io_ret.raised = NoException
              /\ io_ret.svg = <<>>
              /\ io_ret.size = [modules |-> 0]

\* An https URL was given with the type "nano".
C16_Witness ==
    /\ io_ret.fn = "make_qr_svg"
    /\ io_call.qr_type = "nano"
    /\ io_call.content = <<"https://", "example.com/p">>
    /\ io_call.response.shortener = "ok"
    /\ io_ret.raised = InvalidQrType

(***************************************************************************)
(* parse_csv and parse_spreadsheet                                         *)
(***************************************************************************)
ParsedKeys == {"name", "description", "top_symbol", "side_symbol", "reorder_url"}

\* The data rows of a CSV file: its records after the header, but the blank lines.
DataRows(file) ==
    SelectSeq([i \in 1..(Len(file.records) - 1) |-> file.records[i + 1]],
              LAMBDA record : Len(record) > 0)

HeaderHas(file, column) ==
    file.records # <<>> /\ \E j \in 1..Len(file.records[1]) : file.records[1][j] = column

\* The cell of a data row under the column, when the row reaches the column.
Reaches(file, record, column) ==
    \E j \in 1..Len(record) : file.records[1][j] = column

Trimmed(file, record, column) ==
    record[CHOOSE j \in 1..Len(record) : file.records[1][j] = column].text

\* C17: parse_csv returns, for every data row of the file, a dict with exactly the
\* five keys whose values are the trimmed strings of the row; an optional column
\* missing from the header gives the empty string, and a header without name or
\* description raises ValueError and no rows are returned.
C17_ParseCsvRows ==
    io_ret.fn = "parse_csv" =>
        IF HeaderHas(io_call.file, "name") /\ HeaderHas(io_call.file, "description")
        THEN /\ io_ret.raised = NoException
             /\ Len(io_ret.rows) = Len(DataRows(io_call.file))
             /\ \A i \in 1..Len(io_ret.rows) :
                   /\ DOMAIN io_ret.rows[i] = ParsedKeys
                   /\ \A key \in ParsedKeys :
                         /\ ~HeaderHas(io_call.file, key) =>
                               io_ret.rows[i][key] = empty_string(key)
                         /\ Reaches(io_call.file, DataRows(io_call.file)[i], key) =>
                               io_ret.rows[i][key] =
                                  Trimmed(io_call.file, DataRows(io_call.file)[i], key)
        ELSE /\ io_ret.raised \in {NoHeaders, MissingColumns}
             /\ io_ret.rows = <<>>

\* The parser each suffix of the model stands for, in any letter case.
ParserFor(suffix) ==
    CASE suffix \in {".csv", ".CSV"} -> <<"parse_csv", ",">>
      [] suffix \in {".tsv"} -> <<"parse_csv", "\t">>
      [] suffix \in {".xls", ".XLSX"} -> <<"parse_excel">>
      [] suffix \in {".ods"} -> <<"parse_ods">>
      [] suffix \in {".numbers"} -> <<"parse_numbers">>
      [] OTHER -> <<>>

\* C18: parse_spreadsheet selects the parser by the lower-cased suffix of the file
\* and by nothing else: .csv the comma parser, .tsv the tab parser, .xls and .xlsx
\* the Excel parser, .ods the ODS parser, .numbers the Numbers parser; any other
\* suffix raises ValueError and no parser runs.
C18_ParserBySuffix ==
    io_ret.fn = "parse_spreadsheet" =>
        /\ io_ret.parser = ParserFor(io_call.file.suffix)
        /\ ParserFor(io_call.file.suffix) = <<>> =>
              /\ io_ret.raised = UnsupportedFormat
              /\ io_ret.rows = <<>>
        /\ ParserFor(io_call.file.suffix) # <<>> => io_ret.raised # UnsupportedFormat

\* A file named in upper case, .XLSX, went to the Excel parser, and its row came back.
C18_Witness ==
    /\ io_ret.fn = "parse_spreadsheet"
    /\ io_call.file.suffix = ".XLSX"
    /\ io_ret.parser = <<"parse_excel">>
    /\ Len(io_ret.rows) = 1

(***************************************************************************)
(* The output file name                                                    *)
(***************************************************************************)
\* The character that stands in a file name for the character of a name.
InFileName(char) ==
    CASE char = "/" -> "-"
      [] char = " " -> "_"
      [] OTHER -> char

\* C19: the output file name is name + "+" + description with every "/" replaced by
\* "-" and every space by "_" in both parts, then "." and the output format; it
\* holds no "/" and no space, so that the file is created in output_dir itself.
C19_FileNameSanitized ==
    io_ret.fn = "out_file_path" =>
        /\ Len(io_ret.path) = Len(io_call.name) + 1 + Len(io_call.description) + 2
        /\ \A i \in 1..Len(io_call.name) : io_ret.path[i] = InFileName(io_call.name[i])
        /\ io_ret.path[Len(io_call.name) + 1] = "+"
        /\ \A i \in 1..Len(io_call.description) :
              io_ret.path[Len(io_call.name) + 1 + i] = InFileName(io_call.description[i])
        /\ io_ret.path[Len(io_ret.path) - 1] = "."
        /\ io_ret.path[Len(io_ret.path)] = io_call.format
        /\ \A i \in 1..Len(io_ret.path) : io_ret.path[i] \notin {"/", " "}

\* The name "//" and the description " /" gave the file name "--+_-.png".
C19_Witness ==
    /\ io_ret.fn = "out_file_path"
    /\ io_call.name = <<"/", "/">>
    /\ io_call.description = <<" ", "/">>
    /\ io_ret.path = <<"-", "-", "+", "_", "-", ".", "png">>

(***************************************************************************)
(* The log functions                                                       *)
(***************************************************************************)
\* The severity of each log function.
Severity(fn) ==
    CASE fn = "debug" -> -2
      [] fn = "info" -> -1
      [] fn = "print" -> 0
      [] fn = "warn" -> 1
      [] fn = "error" -> 2

Emitted == io_ret.printed # <<>>

\* C20: a log function emits exactly when LOG_LEVEL is at or below its severity
\* (debug -2, info -1, print 0, warn 1, error 2): error() emits at each of the five
\* levels, debug() only at DEBUG, and when a function emits, every function of a
\* higher severity emits at that level too.
C20_EmitsAtOrBelowSeverity ==
    io_ret.fn \in LogFunctions =>
        /\ LOG_LEVEL \in {-2, -1, 0, 1, 2}
        /\ Emitted <=> LOG_LEVEL <= Severity(io_ret.fn)
        /\ io_ret.fn = "error" => Emitted
        /\ (io_ret.fn = "debug" /\ Emitted) => LOG_LEVEL = -2
        /\ Emitted =>
              \A other \in LogFunctions :
                  Severity(other) > Severity(io_ret.fn) =>
                      log_call(other, LOG_LEVEL, io_call.msg, NoKwargs) # <<>>

\* error() printed to sys.stderr while LOG_LEVEL was ERROR.
C20_Witness ==
    /\ io_ret.fn = "error"
    /\ LOG_LEVEL = 2
    /\ io_call.kwargs = NoKwargs
    /\ Len(io_ret.printed) = 1
    /\ io_ret.printed[1].file = "sys.stderr"
(***************************************************************************)
(* C21: the flags of shorten_urls.py and the level the log functions read  *)
(***************************************************************************)
\* A run of shorten_urls.py has ended.
Ran == io_ret.fn = "shorten_urls.py"

\* C21: after a run of shorten_urls.py the level the log functions of generator.py
\* read is the level chosen from the flags (ERROR under -q, NORMAL lowered by one
\* for each -v down to DEBUG), and the run printed exactly what its debug, info
\* and error calls print under that level.
C21_FlagsGateLogging ==
    Ran =>
        /\ LOG_LEVEL = level_of_flags(io_call.argv.quiet, io_call.argv.verbose)
        /\ io_ret.printed =
              printed_by(level_of_flags(io_call.argv.quiet, io_call.argv.verbose), io_ret.calls)

(***************************************************************************)
(* C22: the shaft, its thread lines and its tip                            *)
(***************************************************************************)
\* The vertices of a path: its commands but the closing Z.
Vertices(path) == SelectSeq(path.d, LAMBDA c : c.cmd # "Z")

\* The largest y among the vertices of a path.
LowestY(path) ==
    CHOOSE y \in { Vertices(path)[k].y : k \in 1..Len(Vertices(path)) } :
        \A k \in 1..Len(Vertices(path)) : Vertices(path)[k].y <= y

\* What bolt_shaft returned is one rectangle from y = 100 - shaft_length down, six
\* white lines whose left ends are a seventh of the rectangle's height apart, and
\* one tip that ends at y = 100: a triangle with apex (50, 100) or a trapezoid.
ShaftShape ==
    /\ Len(geom_ret) = 8
    /\ geom_ret[1].tag = "rect"
    /\ geom_ret[1].y = Units(100) - geom_call.shaft_length
    /\ \A k \in 1..6 :
          /\ geom_ret[k + 1].tag = "line"
          /\ geom_ret[k + 1].stroke = "#FFFFFF"
          /\ Abs(7 * (geom_ret[k + 1].y1 - geom_ret[1].y) - k * geom_ret[1].height) < 7
    /\ geom_ret[8].tag = "path"
    /\ Len(Vertices(geom_ret[8])) = IF geom_call.pointed THEN 3 ELSE 4
    /\ geom_call.pointed => Vertices(geom_ret[8])[2] = [cmd |-> "L", x |-> Units(50), y |-> Units(100)]
    /\ Vertices(geom_ret[8])[1].y = geom_ret[1].y + geom_ret[1].height
    /\ LowestY(geom_ret[8]) = Units(100)

\* The left end of every thread line lies strictly between the top and the bottom
\* of the rectangle.
ThreadsInside ==
    \A k \in 1..6 :
        /\ geom_ret[1].y < geom_ret[k + 1].y1
        /\ geom_ret[k + 1].y1 < geom_ret[1].y + geom_ret[1].height

\* C22 as stated: for every shaft width and length, bolt_shaft returns the
\* rectangle, six evenly spaced thread lines strictly inside it, and one tip ending
\* at y = 100.
C22_ThreadsInsideEveryShaft ==
    geom_call.fn = "bolt_shaft" => ShaftShape /\ ThreadsInside

\* C22: for every shaft width and length, bolt_shaft returns the rectangle, six
\* evenly spaced thread lines and one tip ending at y = 100; the thread lines lie
\* strictly inside the rectangle exactly when the shaft is longer than its tip
\* (the shaft width when pointed, a quarter of it otherwise).  For a shorter shaft
\* the rectangle has no height or a negative one, and no line is inside it.
C22_ThreadsInsideLongShaft ==
    geom_call.fn = "bolt_shaft" =>
        /\ ShaftShape
        /\ geom_ret[1].height =
              geom_call.shaft_length
              - (IF geom_call.pointed THEN geom_call.shaft_width
                 ELSE geom_call.shaft_width \div 4)
        /\ ThreadsInside <=> geom_ret[1].height > 0

\* bolt_shaft(20, 20, pointed=True) has returned a rectangle of height 0 with its
\* six thread lines on its top edge.
C22_Witness ==
    /\ geom_call = [fn |-> "bolt_shaft", shaft_width |-> Units(20), shaft_length |-> Units(20),
                    pointed |-> TRUE]
    /\ geom_ret[1].height = 0
    /\ \A k \in 1..6 : geom_ret[k + 1].y1 = Units(80)
    /\ LowestY(geom_ret[8]) = Units(100)

(***************************************************************************)
(* C23: the head rests on the shaft                                        *)
(***************************************************************************)
\* The lower edge of a drawn element: the largest y it covers.
LowerEdge(element) ==
    CASE element.tag = "rect" -> element.y + element.height
      [] element.tag = "ellipse" -> element.cy + element.ry
      [] element.tag = "path" -> LowestY(element)

\* The lower edge of a fragment: the lowest of the lower edges of its elements.
LowerEdgeOf(fragment) ==
    CHOOSE y \in { LowerEdge(fragment[k]) : k \in 1..Len(fragment) } :
        \A k \in 1..Len(fragment) : LowerEdge(fragment[k]) <= y

\* In a screw icon, the place of the rectangle of the shaft: the rectangle that is
\* followed by the first thread line.
ShaftAt(icon) ==
    CHOOSE i \in 2..Len(icon) - 1 : icon[i].tag = "rect" /\ icon[i + 1].tag = "line"

\* The head of a screw icon: the elements between the svg tag and the shaft.
HeadOf(icon) == SubSeq(icon, 2, ShaftAt(icon) - 1)

\* C23: for every head size the lower edge of cap_side, button_side and
\* countersunk_side is at y = 20; the upper edge of the rectangle of bolt_shaft is
\* at y = 100 - shaft_length; and in each of the five screw icons of the side view
\* the head ends at y = 20 where the shaft begins, with no gap and no overlap.
C23_HeadMeetsShaft ==
    /\ geom_call.fn \in HeadPrimitives => LowerEdgeOf(geom_ret) = Units(20)
    /\ geom_call.fn = "bolt_shaft" => geom_ret[1].y = Units(100) - geom_call.shaft_length
    /\ geom_call.fn = "screw_side" =>
          /\ \E i \in 2..Len(geom_ret) - 1 :
                geom_ret[i].tag = "rect" /\ geom_ret[i + 1].tag = "line"
          /\ HeadOf(geom_ret) # <<>>
          /\ LowerEdgeOf(HeadOf(geom_ret)) = Units(20)
          /\ geom_ret[ShaftAt(geom_ret)].y = Units(20)
          /\ geom_ret[ShaftAt(geom_ret)].height > 0

\* hex_head_side has returned a cap from y = -10 to y = 20 above a shaft from
\* y = 20 on.
C23_Witness ==
    /\ geom_call = [fn |-> "screw_side", func |-> "hex_head_side"]
    /\ Len(HeadOf(geom_ret)) = 1
    /\ geom_ret[2].y = -Units(10)
    /\ LowerEdge(geom_ret[2]) = Units(20)
    /\ geom_ret[3].y = Units(20)

(***************************************************************************)
(* C24: the key "insert_press" in the two registries                       *)
(***************************************************************************)
\* The canonical keys of a view: the first name of each registration.
CanonicalKeys(view) == { entry.names[1] : entry \in CatalogOf(view) }

\* The keys of the view bound to the same function as the key.
SharedWith(view, key) ==
    { k \in DOMAIN RegistryOf(view) : RegistryOf(view)[k] = RegistryOf(view)[key] }

OtherView(view) == IF view = "top" THEN "side" ELSE "top"

\* C24 as stated: once shapes.py is imported, in one view "insert_press" is bound
\* to the function of "insert_wood", and in the other view to a function that no
\* other canonical key is bound to.
C24_InsertPressIsWoodInOneView ==
    Loaded =>
        \E view \in Views :
            /\ {"insert_press", "insert_wood"} \subseteq DOMAIN RegistryOf(view)
            /\ RegistryOf(view)["insert_press"] = RegistryOf(view)["insert_wood"]
            /\ "insert_press" \in DOMAIN RegistryOf(OtherView(view))
            /\ SharedWith(OtherView(view), "insert_press") \cap CanonicalKeys(OtherView(view))
                  \subseteq {"insert_press"}

\* C24: once shapes.py is imported, in the top view "insert_press" is bound to
\* insert_heat_top, the function of "insert_heat" and not the one of "insert_wood";
\* in the side view it is bound to insert_press_side, which it shares with its
\* synonym "press_insert" and with no other key.
C24_InsertPressIsHeatInTopView ==
    Loaded =>
        /\ {"insert_press", "insert_heat", "insert_wood"} \subseteq DOMAIN top_generators
        /\ {"insert_press", "insert_heat", "insert_wood"} \subseteq DOMAIN side_generators
        /\ top_generators["insert_press"] = "insert_heat_top"
        /\ top_generators["insert_press"] = top_generators["insert_heat"]
        /\ top_generators["insert_press"] # top_generators["insert_wood"]
        /\ side_generators["insert_press"] = "insert_press_side"
        /\ SharedWith("side", "insert_press") = {"insert_press", "press_insert"}
        /\ SharedWith("side", "insert_press") \cap CanonicalKeys("side") = {"insert_press"}

\* shapes.py is imported and "insert_press" is a key of both registries, bound to
\* different functions.
C24_Witness ==
    /\ Loaded
    /\ "insert_press" \in DOMAIN top_generators \cap DOMAIN side_generators
    /\ top_generators["insert_press"] = "insert_heat_top"
    /\ side_generators["insert_press"] = "insert_press_side"

(***************************************************************************)
(* C25: the names shorten_urls.py imports from generator                   *)
(***************************************************************************)
\* C25: every name shorten_urls.py imports from generator is defined by
\* generator.py, so a run of the command with the module of this repository gets
\* past its import: no ImportError ends it, and when the input file exists the run
\* goes on to shorten_urls_in_spreadsheet, which parses the file.
C25_ImportedNamesDefined ==
    Ran /\ io_call.generator = generator_names =>
          /\ \A i \in 1..Len(imported_names) : imported_names[i] \in generator_names
          /\ io_ret.raised = NoException
          /\ io_call.exists /\ parse_spreadsheet(io_call.argv.input_file).raised = NoException
                => io_ret.calls # <<>>

(***************************************************************************)
(* C26: a registration that fails half way                                 *)
(***************************************************************************)
\* The i-th name of the list is already a key of the registry or repeats an
\* earlier name of the list.
TakenAt(registry, names, i) ==
    \/ lower(names[i]) \in DOMAIN registry
    \/ \E j \in 1..(i - 1) : lower(names[j]) = lower(names[i])

\* The place of the first such name.
FirstTaken(registry, names) ==
    CHOOSE i \in 1..Len(names) :
        TakenAt(registry, names, i) /\ \A j \in 1..(i - 1) : ~TakenAt(registry, names, j)

\* The registry of a view after the step.
RegistryOfNext(view) == IF view = "top" THEN top_generators' ELSE side_generators'

\* C26: when the decorator is applied with names k1..km and kj is the first name
\* already in the registry of the view or repeating an earlier name of the list,
\* ValueError is raised and the registry afterwards is the registry before plus
\* k1..k(j-1), lower-cased, bound to the new function: the names before kj stay
\* registered, kj and the names after it are not bound by the call.
C26_RegistrationNotAtomic ==
    [][ (/\ last_call'.op = "register"
         /\ last_call'.which \in Views
         /\ \E i \in 1..Len(last_call'.names) :
                TakenAt(RegistryOf(last_call'.which), last_call'.names, i)) =>
            LET before == RegistryOf(last_call'.which)
                after == RegistryOfNext(last_call'.which)
                names == last_call'.names
                j == FirstTaken(before, names)
                bound == { lower(names[i]) : i \in 1..(j - 1) }
            IN  /\ raised' = AlreadyRegistered
                /\ DOMAIN after = DOMAIN before \cup bound
                /\ \A k \in bound : after[k] = last_call'.func
                /\ \A k \in DOMAIN before : after[k] = before[k]
                /\ j > 1 => after # before ]_vars

\* @icon_generator("top", names=["nut", "hex"]) applied to g has raised at "hex",
\* which f holds, and "nut" is bound to g.
C26_Witness ==
    /\ last_call = [op |-> "register", which |-> "top", names |-> <<"nut", "hex">>, func |-> "g"]
    /\ raised = AlreadyRegistered
    /\ DOMAIN top_generators = {"hex", "nut"}
    /\ top_generators["hex"] = "f"
    /\ top_generators["nut"] = "g"

(***************************************************************************)
(* C27: a bound key keeps its function                                     *)
(***************************************************************************)
\* C27: in every step, whether a registration that succeeds, one that raises or a
\* lookup, each key bound in the registry of a view is bound afterwards to the same
\* function: no key is rebound or removed, and a registry only grows.
C27_BoundKeysKeepFunction ==
    [][ \A view \in Views :
          /\ DOMAIN RegistryOf(view) \subseteq DOMAIN RegistryOfNext(view)
          /\ \A k \in DOMAIN RegistryOf(view) : RegistryOfNext(view)[k] = RegistryOf(view)[k]
          /\ Cardinality(DOMAIN RegistryOfNext(view)) >= Cardinality(DOMAIN RegistryOf(view))
      ]_vars

\* @icon_generator("top", names=["HEX", "nut"]) applied to g has raised; "hex" is
\* still bound to f, and "nut" is bound to f as well, so g was given no key.
C27_Witness ==
    /\ last_call = [op |-> "register", which |-> "top", names |-> <<"HEX", "nut">>, func |-> "g"]
    /\ raised = AlreadyRegistered
    /\ DOMAIN top_generators = {"hex", "nut"}
    /\ top_generators["hex"] = "f"
    /\ top_generators["nut"] = "f"

(***************************************************************************)
(* C28: the two registries are independent                                 *)
(***************************************************************************)
\* C28: a registration in the top view leaves the side registry as it was and one
\* in the side view leaves the top registry as it was; whether it raises depends
\* on the registry of its own view only; a registration in any other view raises
\* ValueError and leaves both registries as they were; and the import ends without
\* an exception with "hex", "flat" and "washer" bound in both views, to different
\* functions.
C28_RegistriesIndependent ==
    [][ /\ last_call'.op = "register" =>
              /\ last_call'.which = "top" => UNCHANGED side_generators
              /\ last_call'.which = "side" => UNCHANGED top_generators
              /\ last_call'.which \in Views =>
                    (raised' = AlreadyRegistered <=>
                        \E i \in 1..Len(last_call'.names) :
                            TakenAt(RegistryOf(last_call'.which), last_call'.names, i))
              /\ last_call'.which \in Views => raised' \in {NoException, AlreadyRegistered}
              /\ last_call'.which \notin Views =>
                    raised' = UnknownRegistry /\ UNCHANGED registry_vars
        /\ load_pc' > load_pc => raised' = NoException
        /\ Loaded' =>
              \A k \in {"hex", "flat", "washer"} :
                  /\ k \in DOMAIN top_generators' \cap DOMAIN side_generators'
                  /\ top_generators'[k] # side_generators'[k] ]_vars

\* After the import "unobtainium" was registered in the top view, and then in the
\* side view without an exception.
C28_Witness ==
    /\ Loaded
    /\ last_call = [op |-> "register", which |-> "side", names |-> <<"unobtainium">>,
                    func |-> "f"]
    /\ raised = NoException
    /\ "unobtainium" \in DOMAIN top_generators \cap DOMAIN side_generators
    /\ top_generators["hex"] = "head_hex_top"
    /\ side_generators["hex"] = "hex_head_side"

(***************************************************************************)
(* C29: a run of generate_labels that a row ends                           *)
(***************************************************************************)
\* The call of generate_labels was ended by an exception raised in its loop, the
\* parser having raised none.
RaisedInLoop == gl_pc = "raised" /\ last_call.op = "row"

\* C29: generate_labels takes the rows in the order of the spreadsheet and writes
\* the file of a row before it turns to the next: at every moment of a run one file
\* has been written for each finished row, in order, and none for the others.  When
\* the iteration of row k raises, the files of rows 1..k-1 are there, no file was
\* written for rows k..N, the exception leaves generate_labels and no rows are
\* returned.  With a qr_type that make_qr_svg rejects, k is the first row that has
\* a reorder_url.
C29_RowsInOrderNotAtomic ==
    \A parsed \in { parse_spreadsheet(parts_file) } :
        gl_pc \in {"running", "raised", "returned"} /\ parsed.raised = NoException =>
            /\ Len(rows) = Len(parsed.rows)
            /\ \A i \in 1..Len(rows) :
                  /\ rows[i].name = parsed.rows[i].name
                  /\ rows[i].description = parsed.rows[i].description
                  /\ rows[i].reorder_url = parsed.rows[i].reorder_url
            /\ Len(files) = row_idx
            /\ \A i \in 1..row_idx :
                  files[i].path = out_file_path(rows[i].name, rows[i].description, output_format)
            /\ \A i \in (row_idx + 1)..Len(rows) : "label" \notin DOMAIN rows[i]
            /\ gl_pc = "raised" =>
                  /\ RaisedInLoop
                  /\ raised # NoException
                  /\ row_idx < Len(rows)
            /\ gl_pc = "returned" => row_idx = Len(rows) /\ raised = NoException
            /\ qr_type \notin {"micro", "standard"} =>
                  /\ \A i \in 1..row_idx : rows[i].reorder_url = NoUrl
                  /\ gl_pc = "returned" => \A i \in 1..Len(rows) : rows[i].reorder_url = NoUrl
                  /\ gl_pc = "raised" =>
                        raised = InvalidQrType /\ rows[row_idx + 1].reorder_url # NoUrl

\* A run over two rows with the QR type "nano": the first row has no reorder_url
\* and its label is written, the second has one and ends the run.
C29_Witness ==
    /\ RaisedInLoop
    /\ qr_type = "nano"
    /\ Len(rows) = 2
    /\ row_idx = 1
    /\ Len(files) = 1
    /\ rows[1].reorder_url = NoUrl
    /\ rows[2].reorder_url # NoUrl
    /\ raised = InvalidQrType

(***************************************************************************)
(* C30: what write_spreadsheet writes and what parse_spreadsheet reads     *)
(***************************************************************************)
\* The lower-cased suffixes write_spreadsheet has a writer for, and those
\* parse_spreadsheet has a parser for.
Writable == {".csv", ".tsv", ".xlsx", ".ods", ".numbers"}
Readable == Writable \cup {".xls"}

====
